---------------------------- MODULE Spec2Model ----------------------------
(***************************************************************************)
(* fusenetmd: a NetMD MiniDisc exposed as a FUSE filesystem.               *)
(*                                                                         *)
(* The module models, from the TypeScript sources,                         *)
(*   - the TFS codec (src/src/tfs.ts),                                     *)
(*   - the streaming file buffer FSFile and the Cache (filesystem.ts,      *)
(*     src/unnamed/part_000 lines 1-156),                                  *)
(*   - the asyncMutex / synchronized helpers (utils.ts,                    *)
(*     src/unnamed/part_001),                                              *)
(*   - the transfer coordinator TransferManager (src/src/transfer.ts).     *)
(*                                                                         *)
(* JavaScript runs the callbacks on one thread; a task runs without        *)
(* interruption from one await to the next.  Every action below is one     *)
(* such run of one task.  Mutex.acquire() (async-mutex) grants a free lock *)
(* at the call and otherwise queues the caller first-in first-out; the     *)
(* release hands the lock to the head of the queue.                        *)
(***************************************************************************)
EXTENDS Integers, Sequences, FiniteSets, TLC

(***************************************************************************)
(* Generic helpers.                                                        *)
(***************************************************************************)
Min(a, b) == IF a < b THEN a ELSE b
Max(a, b) == IF a > b THEN a ELSE b

\* Array.prototype.slice(from, to) on a sequence, 0-based, clamped.
Slice(s, from, to) ==
    LET lo == Min(Max(from, 0), Len(s))
        hi == Min(Max(to, 0), Len(s))
    IN  IF hi <= lo THEN << >> ELSE SubSeq(s, lo + 1, hi)

\* Array.prototype.splice(0, e): the removed head and what is left.
\* A negative count removes nothing.
SpliceHead(s, e) == Slice(s, 0, Max(e, 0))
SpliceRest(s, e) == Slice(s, Max(e, 0), Len(s))

\* Array.prototype.indexOf(x), 0-based, -1 when absent.
IndexOf(s, x) ==
    IF \E i \in 1..Len(s) : s[i] = x
    THEN (CHOOSE i \in 1..Len(s) : s[i] = x /\ \A j \in 1..(i - 1) : s[j] # x) - 1
    ELSE -1

RECURSIVE FlattenRange(_, _, _)
\* ss[lo] \o ... \o ss[hi], split in halves to keep the evaluation shallow.
FlattenRange(ss, lo, hi) ==
    IF lo > hi THEN << >>
    ELSE IF lo = hi THEN ss[lo]
    ELSE LET mid == (lo + hi) \div 2
         IN  FlattenRange(ss, lo, mid) \o FlattenRange(ss, mid + 1, hi)

\* The concatenation of a sequence of sequences.
Flatten(ss) == FlattenRange(ss, 1, Len(ss))

(***************************************************************************)
(* Numbers wider than 32-bit signed integers.  A byte length is a u32; it  *)
(* is kept as two 16-bit halves, value = hi * 65536 + lo.  The halves of   *)
(* an int32 (the result of a JavaScript shift) have hi in -32768..32767.   *)
(***************************************************************************)
U32(h, l) == [hi |-> h, lo |-> l]

\* Byte i (0 = least significant) of ToInt32(n): (n >> (8*i)) & 0xff.
ByteOf(n, i) ==
    CASE i = 0 -> n.lo % 256
      [] i = 1 -> n.lo \div 256
      [] i = 2 -> n.hi % 256
      [] i = 3 -> (n.hi \div 256) % 256

\* n <<= 8: ToInt32 of the operand, shifted, as a signed 32-bit value.
Shl8(n) ==
    LET h == (n.hi % 256) * 256 + (n.lo \div 256)
    IN  [hi |-> IF h >= 32768 THEN h - 65536 ELSE h, lo |-> (n.lo % 256) * 256]

\* n += b for a byte b (ordinary addition: no wrap-around).
AddByte(n, b) ==
    LET l == n.lo + b
    IN  [hi |-> n.hi + (l \div 65536), lo |-> l % 65536]

(***************************************************************************)
(* TextEncoder / TextDecoder on names.  A name is a sequence of code       *)
(* points; its encoding is UTF-8.                                          *)
(***************************************************************************)
Utf8Char(cp) ==
    IF cp < 128 THEN << cp >>
    ELSE IF cp < 2048 THEN << 192 + (cp \div 64), 128 + (cp % 64) >>
    ELSE << 224 + (cp \div 4096), 128 + ((cp \div 64) % 64), 128 + (cp % 64) >>

TextEncode(name) == Flatten([i \in 1..Len(name) |-> Utf8Char(name[i])])

IsCont(bs, i) == i <= Len(bs) /\ bs[i] >= 128 /\ bs[i] < 192

\* What the decoder makes of the bytes at i: the bytes it consumes and the
\* code point.  A byte that starts no well-formed sequence is consumed alone
\* and becomes U+FFFD (non-fatal decoding).
DecodeAt(bs, i) ==
    LET b == bs[i] IN
    IF b < 128 THEN [step |-> 1, cp |-> b]
    ELSE IF b >= 194 /\ b < 224 /\ IsCont(bs, i + 1)
         THEN [step |-> 2, cp |-> (b - 192) * 64 + (bs[i + 1] - 128)]
    ELSE IF b >= 224 /\ b < 240 /\ IsCont(bs, i + 1) /\ IsCont(bs, i + 2)
            /\ (b - 224) * 4096 + (bs[i + 1] - 128) * 64 + (bs[i + 2] - 128) >= 2048
         THEN [step |-> 3, cp |-> (b - 224) * 4096 + (bs[i + 1] - 128) * 64 + (bs[i + 2] - 128)]
    ELSE [step |-> 1, cp |-> 65533]

\* The decoder is at i when no sequence that began before i has consumed
\* the byte: only continuation bytes are consumed, by the lead byte just
\* before them.
DecodesAt(bs, i) ==
    \/ ~IsCont(bs, i)
    \/ ~ \/ i > 1 /\ ~IsCont(bs, i - 1) /\ DecodeAt(bs, i - 1).step >= 2
         \/ i > 2 /\ IsCont(bs, i - 1) /\ ~IsCont(bs, i - 2) /\ DecodeAt(bs, i - 2).step = 3

TextDecode(bs) ==
    Flatten([i \in 1..Len(bs) |-> IF DecodesAt(bs, i) THEN << DecodeAt(bs, i).cp >> ELSE << >>])

(***************************************************************************)
(* FS tree nodes (filesystem.ts).  Object.keys order is insertion order,   *)
(* so a directory's files are a sequence of nodes with distinct names.     *)
(***************************************************************************)
FSFile(trackID, name, byteLength) ==
    [kind |-> "file", trackID |-> trackID, name |-> name, byteLength |-> byteLength]

FSDirectory(name) == [kind |-> "dir", name |-> name, files |-> << >>]

IsFile(n) == n.kind = "file"
IsDir(n) == n.kind = "dir"

\* FSDirectory.add: this.files[file.name] = file.  An existing key keeps its
\* place in the key order and takes the new value.
DirAdd(dir, file) ==
    IF \E i \in 1..Len(dir.files) : dir.files[i].name = file.name
    THEN [dir EXCEPT !.files = [i \in 1..Len(dir.files) |->
                        IF dir.files[i].name = file.name THEN file ELSE dir.files[i]]]
    ELSE [dir EXCEPT !.files = Append(dir.files, file)]

RECURSIVE DirAddAll(_, _)
DirAddAll(dir, files) ==
    IF files = << >> THEN dir ELSE DirAddAll(DirAdd(dir, Head(files)), Tail(files))

(***************************************************************************)
(* TFS codec (tfs.ts).                                                     *)
(***************************************************************************)
MAGIC == << 140, 179, 150, 233, 141, 162 >>

\* The largest encoding createTFSStructure returns.
TFSLimit == 2300

\* createTFSStructure.writeFile: the record of one file.
writeFile(file) ==
    LET len  == file.byteLength
        type == IF len.hi > 255 THEN 3
                ELSE IF len.hi > 0 THEN 2
                ELSE IF len.lo > 255 THEN 1
                ELSE 0
        bytes == [k \in 1..(type + 1) |-> ByteOf(len, type + 1 - k)]
    IN  << type, file.trackID % 256 >> \o bytes \o TextEncode(file.name) \o << 0 >>

RECURSIVE enumerateDir(_)
\* createTFSStructure.enumerateDir: F0, name, 0, the records of the children
\* in key order, FF.
enumerateDir(dir) ==
    << 240 >> \o TextEncode(dir.name) \o << 0 >>
    \o Flatten([i \in 1..Len(dir.files) |->
                  IF IsFile(dir.files[i]) THEN writeFile(dir.files[i])
                  ELSE enumerateDir(dir.files[i])])
    \o << 255 >>

\* The concatenation createTFSStructure builds before its size check.
TFSBytes(root) == MAGIC \o enumerateDir(root)

\* createTFSStructure: the bytes, or the "TFS overflow" error.
createTFSStructure(root) ==
    LET sum == TFSBytes(root)
    IN  IF Len(sum) > TFSLimit THEN [ok |-> FALSE, bytes |-> << >>]
        ELSE [ok |-> TRUE, bytes |-> sum]

\* parseTFSStructure.getText: the bytes up to the first 0 decoded, and the
\* input after that 0.  With no 0 left, indexOf gives -1, splice(0, -1)
\* removes nothing and the text is empty; one byte is then dropped.
getTextOf(arr) == TextDecode(SpliceHead(arr, IndexOf(arr, 0)))
getTextRest(arr) == SpliceRest(SpliceRest(arr, IndexOf(arr, 0)), 1)

RECURSIVE ParseLength(_, _)
\* for(let b of lengthBytes){ length <<= 8; length += b; }
ParseLength(lengthBytes, length) ==
    IF lengthBytes = << >> THEN length
    ELSE ParseLength(Tail(lengthBytes), AddByte(Shl8(length), Head(lengthBytes)))

\* What next(1)[0] reads: the first byte, or undefined (-1) at the end.
FirstByte(arr) == IF arr = << >> THEN -1 ELSE arr[1]

RECURSIVE tranverseDirectory(_)
RECURSIVE DirectoryBody(_, _, _)
\* The while loop of tranverseDirectory.  Result: st is "ok" (a directory
\* was built), or "loop" when the loop can never end: the input is used up,
\* rawArr[0] is undefined, which is not 0xff, and next(1) removes nothing.
DirectoryBody(name, files, arr) ==
    IF arr = << >> THEN [st |-> "loop", dir |-> FSDirectory(name), rest |-> arr]
    ELSE IF arr[1] = 255
    THEN [st |-> "ok", dir |-> DirAddAll(FSDirectory(name), files),
          rest |-> SpliceRest(arr, 1)]
    ELSE LET type == arr[1]
             a1   == SpliceRest(arr, 1)
         IN  IF type >= 0 /\ type <= 3
             THEN LET trackID     == FirstByte(a1)
                      a2          == SpliceRest(a1, 1)
                      lengthBytes == SpliceHead(a2, 1 + type)
                      a3          == SpliceRest(a2, 1 + type)
                      length      == ParseLength(lengthBytes, U32(0, 0))
                  IN  DirectoryBody(name,
                                    Append(files, FSFile(trackID, getTextOf(a3), length)),
                                    getTextRest(a3))
             ELSE IF type = 240
             THEN LET sub == tranverseDirectory(a1)
                  IN  IF sub.st = "ok"
                      THEN DirectoryBody(name, Append(files, sub.dir), sub.rest)
                      ELSE [st |-> sub.st, dir |-> FSDirectory(name), rest |-> sub.rest]
             ELSE DirectoryBody(name, files, a1)

tranverseDirectory(arr) == DirectoryBody(getTextOf(arr), << >>, getTextRest(arr))

\* parseTFSStructure: st is "ok" with the root in dir, "error" for a thrown
\* Error (wrong MAGIC, illegal root record), or "loop".
parseTFSStructure(raw) ==
    IF SpliceHead(raw, Len(MAGIC)) # MAGIC
    THEN [st |-> "error", dir |-> FSDirectory(<< >>), rest |-> raw]
    ELSE IF FirstByte(SpliceRest(raw, Len(MAGIC))) # 240
    THEN [st |-> "error", dir |-> FSDirectory(<< >>), rest |-> raw]
    ELSE tranverseDirectory(SpliceRest(raw, Len(MAGIC) + 1))

RECURSIVE Canon(_)
\* A tree up to child ordering: the children as a set.
Canon(n) ==
    IF IsFile(n) THEN n
    ELSE [kind |-> "dir", name |-> n.name,
          files |-> {Canon(n.files[i]) : i \in 1..Len(n.files)}]

(***************************************************************************)
(* State.                                                                  *)
(***************************************************************************)
VARIABLES
    \* codec runs: a tree, what createTFSStructure made of it, and what
    \* parseTFSStructure made of that
    tfsTree, tfsEnc, tfsParsed, tfsPhase,
    \* one FSFile buffer: contents (Null until the first append), complete,
    \* currentWaiting, its private mutex, and the options it was built with
    contents, complete, currentWaiting, fileMutex, readOpts,
    \* the getContents calls on that buffer, by caller
    readers,
    \* the startReadTransfer calls made for that buffer, in call order
    transfers,
    \* the chunks downloadTrackGenerator yields for the buffer's track
    track,
    \* TransferManager.mutex
    mutex,
    \* the device: the three UTOC sectors, and whether sectors were written
    \* that forceTOCEdit has not committed yet
    dev,
    \* Cache: disc (the listing refreshCache took), nextFileID, filesystem
    cache,
    \* the callers of the coordinator: where each one is, and what it did
    tasks,
    \* what each caller is going to call, in order
    plan,
    \* per caller, the sector writes of each writeTOC it completed
    flushes,
    \* init() has finished and the callbacks are mounted
    mounted,
    \* index.ts: the open-files vector (a slot is Null or a handle)
    openFiles,
    \* the FSFile buffers the write handles made, by creation order
    cachedFiles,
    \* the running and the last VFS callback of each caller
    calls

tfsVars == << tfsTree, tfsEnc, tfsParsed, tfsPhase >>
fileVars == << contents, complete, currentWaiting, fileMutex, readOpts >>
streamVars == << fileVars, readers, transfers, track >>

coordVars == << dev, cache, tasks, plan, flushes, mounted >>

vfsVars == << openFiles, cachedFiles, calls >>

vars == << tfsVars, streamVars, mutex, coordVars, vfsVars >>

(***************************************************************************)
(* Mutex (async-mutex) as utils.ts uses it: holder is the ticket the lock  *)
(* was granted to, queue the tickets of the pending acquire() calls.       *)
(***************************************************************************)
NoTicket == << "none", 0 >>
FreeMutex == [holder |-> NoTicket, queue |-> << >>]

\* mutex.acquire(): granted at once when free, queued otherwise.
MutexAcquire(m, ticket) ==
    IF m.holder = NoTicket THEN [m EXCEPT !.holder = ticket]
    ELSE [m EXCEPT !.queue = Append(@, ticket)]

\* release(): the lock passes to the oldest pending acquire().
MutexRelease(m) ==
    IF m.queue = << >> THEN FreeMutex
    ELSE [holder |-> Head(m.queue), queue |-> Tail(m.queue)]

\* The wrapper without its await: the body starts at once.
asyncMutexEnterNoWait(m, ticket) == [m EXCEPT !.holder = ticket]

\* asyncMutex wrapper, entry: const release = await mutex.acquire().
asyncMutexEnter(m, ticket) == MutexAcquire(m, ticket)

\* asyncMutex wrapper, exit: finally { release(); }, on return and on throw.
asyncMutexExit(m) == MutexRelease(m)

\* The wrapped body of `ticket` may run: its acquire() has been granted.
Granted(m, ticket) == m.holder = ticket

(***************************************************************************)
(* Streaming file buffer (FSFile) and TransferManager.startReadTransfer.   *)
(***************************************************************************)
\* Callers of getContents on the buffer.
NReaders == 2
\* Most chunks the generator yields for the track.
MaxChunks == 2

Readers == 1..NReaders

\* this.contents === null
Null == << -1 >>

ReaderTicket(r) == << "getContents", r >>
TransferTicket(k) == << "startReadTransfer", k >>

\* The i-th chunk of the longest track: audio data of two bytes, with a
\* header and a chunk of another kind among them.
ChunkAt(i) ==
    CASE i % 3 = 1 -> [type |-> "audioData", chunk |-> << i, i + 10 >>]
      [] i % 3 = 2 -> [type |-> "header", chunk |-> << 9 >>]
      [] OTHER     -> [type |-> "other", chunk |-> << 7 >>]

\* The tracks: what the generator yields before it ends, 0 to MaxChunks
\* chunks.
Tracks == { [i \in 1..n |-> ChunkAt(i)] : n \in 0..MaxChunks }

\* The (start, length) of the getContents calls.
ReadRanges == { << 0, 0 >>, << 0, 1 >>, << 1, 4 >> }

IdleReader ==
    [pc |-> "idle", start |-> 0, length |-> 0, currentLength |-> 0,
     ret |-> << >>, retLen |-> 0, retComplete |-> FALSE, waited |-> FALSE]

StreamIdle ==
    /\ contents = Null
    /\ complete = FALSE
    /\ currentWaiting = << >>
    /\ fileMutex = FreeMutex
    /\ readOpts = [audioTrack |-> FALSE]
    /\ readers = [r \in Readers |-> IdleReader]
    /\ transfers = << >>
    /\ track = << >>

StreamInit ==
    /\ contents = Null
    /\ complete = FALSE
    /\ currentWaiting = << >>
    /\ fileMutex = FreeMutex
    /\ readOpts \in [audioTrack : BOOLEAN]
    /\ readers = [r \in Readers |-> IdleReader]
    /\ transfers = << >>
    /\ track \in Tracks

\* The call transferManager.startReadTransfer(...): the asyncMutex wrapper
\* runs up to its await of mutex.acquire().
NewTransfer == [pc |-> "wait", pos |-> 0]

\* A release test that lets every waiter go.
AppendReleasesAll(w, length) == TRUE

\* FSFile.append, the release test: waiters strictly below the new length.
AppendReleases(w, length) == w.threshold < length

\* The waiters append releases, and those it keeps.
ReleasedBy(ws, length) == { i \in 1..Len(ws) : AppendReleases(ws[i], length) }

RECURSIVE KeepWaiters(_, _, _)
KeepWaiters(ws, length, i) ==
    IF i > Len(ws) THEN << >>
    ELSE (IF AppendReleases(ws[i], length) THEN << >> ELSE << ws[i] >>)
         \o KeepWaiters(ws, length, i + 1)

\* The resolved promise of a waiter lets its getContents go on.
Wake(rs, who) == [r \in Readers |-> IF r \in who THEN [rs[r] EXCEPT !.pc = "released"] ELSE rs[r]]

\* Chunks startReadTransfer appends: audio data, and headers of audio tracks.
Appended(chunk) ==
    chunk.type = "audioData" \/ (readOpts.audioTrack /\ chunk.type = "header")

----------------------------------------------------------------------------
\* getContents(start, length), up to the await of this.mutex.acquire().
GetContents(r, start, length) ==
    /\ readers[r].pc = "idle"
    \* callers are interchangeable: they are numbered in the order they call
    /\ \A q \in Readers : q < r => readers[q].pc # "idle"
    /\ readers' = [readers EXCEPT ![r].pc = "check", ![r].start = start, ![r].length = length]
    /\ fileMutex' = MutexAcquire(fileMutex, ReaderTicket(r))
    /\ UNCHANGED << contents, complete, currentWaiting, readOpts, transfers, track, mutex >>

\* First critical section: the length, the start of the transfer when
\* contents is null, release(), and the test that decides whether to wait.
\* Either way the next thing is a synchronized(this.mutex, ...) call.
GetContentsCheck(r) ==
    /\ readers[r].pc = "check"
    /\ Granted(fileMutex, ReaderTicket(r))
    /\ LET currentLength == IF contents = Null THEN 0 ELSE Len(contents)
           wait == readers[r].start + readers[r].length > currentLength /\ ~complete
       IN  /\ readers' = [readers EXCEPT ![r].currentLength = currentLength,
                                         ![r].pc = IF wait THEN "register" ELSE "slice"]
           /\ fileMutex' = MutexAcquire(MutexRelease(fileMutex), ReaderTicket(r))
    /\ IF contents = Null
       THEN /\ transfers' = Append(transfers, NewTransfer)
            /\ mutex' = asyncMutexEnter(mutex, TransferTicket(Len(transfers) + 1))
       ELSE UNCHANGED << transfers, mutex >>
    /\ UNCHANGED << contents, complete, currentWaiting, readOpts, track >>

\* Second critical section: currentWaiting.push({threshold, release}).
GetContentsRegister(r) ==
    /\ readers[r].pc = "register"
    /\ Granted(fileMutex, ReaderTicket(r))
    /\ currentWaiting' = Append(currentWaiting,
                                [threshold |-> readers[r].start + readers[r].length,
                                 release |-> r])
    /\ readers' = [readers EXCEPT ![r].pc = "suspended", ![r].waited = TRUE]
    /\ fileMutex' = MutexRelease(fileMutex)
    /\ UNCHANGED << contents, complete, readOpts, transfers, track, mutex >>

\* The waiter's promise is resolved: getContents calls synchronized for the
\* slice.
GetContentsResume(r) ==
    /\ readers[r].pc = "released"
    /\ readers' = [readers EXCEPT ![r].pc = "slice"]
    /\ fileMutex' = MutexAcquire(fileMutex, ReaderTicket(r))
    /\ UNCHANGED << contents, complete, currentWaiting, readOpts, transfers, track, mutex >>

\* Third critical section: contents?.slice(start, start + length) || [].
GetContentsSlice(r) ==
    /\ readers[r].pc = "slice"
    /\ Granted(fileMutex, ReaderTicket(r))
    /\ readers' = [readers EXCEPT
          ![r].pc = "done",
          ![r].ret = IF contents = Null THEN << >>
                     ELSE Slice(contents, readers[r].start,
                                readers[r].start + readers[r].length),
          ![r].retLen = IF contents = Null THEN 0 ELSE Len(contents),
          ![r].retComplete = complete]
    /\ fileMutex' = MutexRelease(fileMutex)
    /\ UNCHANGED << contents, complete, currentWaiting, readOpts, transfers, track, mutex >>

----------------------------------------------------------------------------
\* startReadTransfer, body entered: exploitManager.require(...) and the
\* generator are set up.
TransferStart(k) ==
    /\ transfers[k].pc = "wait"
    /\ Granted(mutex, TransferTicket(k))
    /\ transfers' = [transfers EXCEPT ![k].pc = "next"]
    /\ UNCHANGED << fileVars, readers, track, mutex >>

\* The generator yields a chunk: target.append(chunk) is called, or the
\* chunk is dropped.
TransferChunk(k) ==
    /\ transfers[k].pc = "next"
    /\ transfers[k].pos < Len(track)
    /\ IF Appended(track[transfers[k].pos + 1])
       THEN /\ transfers' = [transfers EXCEPT ![k].pc = "append"]
            /\ fileMutex' = asyncMutexEnter(fileMutex, TransferTicket(k))
       ELSE /\ transfers' = [transfers EXCEPT ![k].pos = @ + 1]
            /\ UNCHANGED fileMutex
    /\ UNCHANGED << contents, complete, currentWaiting, readOpts, readers, track, mutex >>

\* FSFile.append under the buffer's mutex.
TransferAppend(k) ==
    /\ transfers[k].pc = "append"
    /\ Granted(fileMutex, TransferTicket(k))
    /\ LET chunk == track[transfers[k].pos + 1].chunk
           new   == IF contents = Null THEN chunk ELSE contents \o chunk
           who   == { currentWaiting[i].release : i \in ReleasedBy(currentWaiting, Len(new)) }
       IN  /\ contents' = new
           /\ currentWaiting' = KeepWaiters(currentWaiting, Len(new), 1)
           /\ readers' = Wake(readers, who)
    /\ fileMutex' = asyncMutexExit(fileMutex)
    /\ transfers' = [transfers EXCEPT ![k].pc = "next", ![k].pos = @ + 1]
    /\ UNCHANGED << complete, readOpts, track, mutex >>

\* The generator is done: target.markAsComplete() is called.
TransferEnd(k) ==
    /\ transfers[k].pc = "next"
    /\ transfers[k].pos = Len(track)
    /\ transfers' = [transfers EXCEPT ![k].pc = "mark"]
    /\ fileMutex' = asyncMutexEnter(fileMutex, TransferTicket(k))
    /\ UNCHANGED << contents, complete, currentWaiting, readOpts, readers, track, mutex >>

\* FSFile.markAsComplete under the buffer's mutex: every waiter is released.
TransferMark(k) ==
    /\ transfers[k].pc = "mark"
    /\ Granted(fileMutex, TransferTicket(k))
    /\ complete' = TRUE
    /\ readers' = Wake(readers, { currentWaiting[i].release : i \in 1..Len(currentWaiting) })
    /\ currentWaiting' = << >>
    /\ fileMutex' = asyncMutexExit(fileMutex)
    /\ transfers' = [transfers EXCEPT ![k].pc = "return"]
    /\ UNCHANGED << contents, readOpts, track, mutex >>

\* startReadTransfer returns: the wrapper's finally releases the coordinator.
TransferReturn(k) ==
    /\ transfers[k].pc = "return"
    /\ transfers' = [transfers EXCEPT ![k].pc = "done"]
    /\ mutex' = asyncMutexExit(mutex)
    /\ UNCHANGED << fileVars, readers, track >>

\* The driver fails: the generator raises instead of yielding or finishing.
\* The body has no handler; the wrapper's finally releases the coordinator.
TransferFail(k) ==
    /\ transfers[k].pc = "next"
    /\ transfers' = [transfers EXCEPT ![k].pc = "failed"]
    /\ mutex' = asyncMutexExit(mutex)
    /\ UNCHANGED << fileVars, readers, track >>

TransferStep(k) ==
    \/ TransferStart(k)
    \/ TransferChunk(k)
    \/ TransferAppend(k)
    \/ TransferEnd(k)
    \/ TransferMark(k)
    \/ TransferReturn(k)
    \/ TransferFail(k)

(***************************************************************************)
(* The device as the coordinator sees it (netmd-js, netmd-tocmanip).       *)
(* Sector 0 holds the track map and the fragments, sector 1 the titles,    *)
(* sector 2 the TFS.  A title is a sequence of characters; a fragment's    *)
(* mode is the set of its ModeFlag bits.                                   *)
(***************************************************************************)
\* const OFFSET = 0x2f + 1 + 255
OFFSET == 303
\* The size of a UTOC sector.
SectorSize == 2352

HFSPrefix == << "h", "_", "f", "s", "_" >>

\* String.prototype.startsWith
StartsWith(str, prefix) ==
    Len(str) >= Len(prefix) /\ SubSeq(str, 1, Len(prefix)) = prefix

HexDigits == << "0", "1", "2", "3", "4", "5", "6", "7", "8", "9",
                "a", "b", "c", "d", "e", "f" >>

RECURSIVE ToHex(_)
\* Number.prototype.toString(16)
ToHex(n) == IF n < 16 THEN << HexDigits[n + 1] >> ELSE ToHex(n \div 16) \o << HexDigits[(n % 16) + 1] >>

\* String.prototype.padStart(2, '0')
PadStart2(str) == IF Len(str) < 2 THEN [i \in 1..(2 - Len(str)) |-> "0"] \o str ELSE str

\* `h_fs_${id.toString(16).padStart(2, '0')}`
HFSTitle(id) == HFSPrefix \o PadStart2(ToHex(id))

\* A sector of bytes, kept as its leading zero bytes, its payload and its
\* trailing zero bytes.
ZeroBytes(n) == [i \in 1..n |-> 0]
SectorBytes(sec) == ZeroBytes(sec.lead) \o sec.tfs \o ZeroBytes(sec.pad)
BlankSector == [lead |-> OFFSET, tfs |-> << >>, pad |-> SectorSize - OFFSET]

\* parseTOC(sector0, sector1) and reconstructTOC(toc): sectors 0 and 1.
parseTOC(sector0, sector1) ==
    [nTracks |-> sector0.nTracks, trackMap |-> sector0.trackMap,
     trackFragmentList |-> sector0.trackFragmentList, titles |-> sector1]

reconstructTOC(toc) ==
    << [nTracks |-> toc.nTracks, trackMap |-> toc.trackMap,
        trackFragmentList |-> toc.trackFragmentList],
       toc.titles >>

\* getTitleByTrackNumber(toc, i + 1)
getTitleByTrackNumber(toc, n) == toc.titles[n]

RECURSIVE Chain(_, _)
\* The fragments of a chain: link, fragment.link, ... up to the link 0.
Chain(toc, link) ==
    IF link = 0 THEN { } ELSE { link } \cup Chain(toc, toc.trackFragmentList[link].link)

\* listContent / getTracks: index, title (null when empty) and encoding.
listContent(d) ==
    LET toc == parseTOC(d.utoc[1], d.utoc[2])
    IN  [i \in 1..toc.nTracks |->
           [index |-> i - 1,
            title |-> toc.titles[i],
            encoding |-> IF "SP_MODE" \in toc.trackFragmentList[toc.trackMap[i]].mode
                         THEN "sp" ELSE "lp2"]]

RemoveAt(seq, i) == [j \in 1..(Len(seq) - 1) |-> IF j < i THEN seq[j] ELSE seq[j + 1]]

\* netmd.eraseTrack(index): the track leaves the map; later tracks move up.
eraseTrack(d, index) ==
    [d EXCEPT !.utoc[1].nTracks = @ - 1,
              !.utoc[1].trackMap = RemoveAt(@, index + 1),
              !.utoc[2] = RemoveAt(@, index + 1)]

\* download(netmd, mdTrack): a new last track of one LP2 fragment.
uploadTrack(d, name) ==
    [d EXCEPT !.utoc[1].nTracks = @ + 1,
              !.utoc[1].trackFragmentList = Append(@, [mode |-> { "STEREO", "WRITABLE" }, link |-> 0]),
              !.utoc[1].trackMap = Append(@, Len(d.utoc[1].trackFragmentList) + 1),
              !.utoc[2] = Append(@, name)]

(***************************************************************************)
(* Cache (filesystem.ts).                                                  *)
(***************************************************************************)
HexValue(c) ==
    CASE c \in { "0", "1", "2", "3", "4", "5", "6", "7", "8", "9" } ->
           (CHOOSE i \in 1..10 : HexDigits[i] = c) - 1
      [] c \in { "a", "b", "c", "d", "e", "f" } ->
           (CHOOSE i \in 11..16 : HexDigits[i] = c) - 1
      [] c = "A" -> 10 [] c = "B" -> 11 [] c = "C" -> 12
      [] c = "D" -> 13 [] c = "E" -> 14 [] c = "F" -> 15
      [] OTHER -> -1

RECURSIVE ParseHexFrom(_, _, _)
ParseHexFrom(str, i, acc) ==
    IF i > Len(str) \/ HexValue(str[i]) < 0 THEN acc
    ELSE ParseHexFrom(str, i + 1, acc * 16 + HexValue(str[i]))

\* parseInt(str, 16): the leading hexadecimal digits; NaN (-1) without any.
ParseIntHex(str) ==
    IF str = << >> \/ HexValue(str[1]) < 0 THEN -1 ELSE ParseHexFrom(str, 1, 0)

\* refreshCache: the ids taken by h_fs_ titles, and the first id not taken.
TakenIDs(disc) ==
    { ParseIntHex(SubSeq(disc[i].title, 6, Len(disc[i].title)))
        : i \in { j \in 1..Len(disc) : StartsWith(disc[j].title, HFSPrefix) } }

\* An allocation that counts the ids taken instead of finding the first gap.
NextFileIDCount(disc) == Cardinality(TakenIDs(disc))

NextFileID(disc) ==
    CHOOSE n \in 0..Len(disc) : n \notin TakenIDs(disc) /\ \A m \in 0..(n - 1) : m \in TakenIDs(disc)

\* resolveIDToIndex
resolveIDToIndex(disc, id) ==
    IF \E i \in 1..Len(disc) : disc[i].title = HFSTitle(id)
    THEN disc[CHOOSE i \in 1..Len(disc) :
                 disc[i].title = HFSTitle(id) /\ \A j \in 1..(i - 1) : disc[j].title # HFSTitle(id)].index
    ELSE -1

(***************************************************************************)
(* TransferManager.writeTOC, the part between reading sectors 0 and 1 and  *)
(* the first write.                                                        *)
(***************************************************************************)
\* A stamp that flips F_WRITABLE instead of clearing it.
StampModeFlip(mode) ==
    IF "WRITABLE" \in mode THEN (mode \cup { "SP_MODE", "STEREO" }) \ { "WRITABLE" }
    ELSE mode \cup { "SP_MODE", "STEREO", "WRITABLE" }

\* fragment.mode |= F_SP_MODE | F_STEREO; fragment.mode &= ~F_WRITABLE
StampMode(mode) == (mode \cup { "SP_MODE", "STEREO" }) \ { "WRITABLE" }

\* The fragments in the chains of the tracks titled h_fs_...
HiddenFragments(toc) ==
    UNION { Chain(toc, toc.trackMap[i])
              : i \in { j \in 1..toc.nTracks :
                          StartsWith(getTitleByTrackNumber(toc, j), HFSPrefix) } }

\* A loop that stamps the first fragment of a hidden track and stops.
StampTOCFirstOnly(toc) ==
    [toc EXCEPT !.trackFragmentList =
        [l \in 1..Len(toc.trackFragmentList) |->
            IF \E i \in 1..toc.nTracks :
                  /\ StartsWith(getTitleByTrackNumber(toc, i), HFSPrefix)
                  /\ toc.trackMap[i] = l
            THEN [toc.trackFragmentList[l] EXCEPT
                     !.mode = (@ \cup { "SP_MODE", "STEREO" }) \ { "WRITABLE" }]
            ELSE toc.trackFragmentList[l]]]

\* The loop over the tracks: the fragments of hidden tracks are stamped.
StampTOC(toc) ==
    [toc EXCEPT !.trackFragmentList =
        [l \in 1..Len(toc.trackFragmentList) |->
            IF l \in HiddenFragments(toc)
            THEN [toc.trackFragmentList[l] EXCEPT !.mode = StampMode(@)]
            ELSE toc.trackFragmentList[l]]]

\* A writeTOC that writes sectors 0 and 1 before it encodes the tree.
writeTOCSectorsEager(sector0, sector1, root) ==
    LET toc     == StampTOC(parseTOC(sector0, sector1))
        sectors == reconstructTOC(toc)
        tfs     == createTFSStructure(root)
        padding == SectorSize - Len(tfs.bytes) - OFFSET
    IN  IF ~tfs.ok \/ padding < 0
        THEN [ok |-> FALSE, sectors |-> << << 0, sectors[1] >>, << 1, sectors[2] >> >>]
        ELSE [ok |-> TRUE,
              sectors |-> << << 0, sectors[1] >>, << 1, sectors[2] >>,
                             << 2, [lead |-> OFFSET, tfs |-> tfs.bytes, pad |-> padding] >> >>]

\* What writeTOC is about to write: ok is FALSE when it throws first
\* (createTFSStructure: "TFS overflow"; Array(n) with n < 0: RangeError),
\* sectors are the <<index, sector>> it writes before that or before the
\* commit.
writeTOCSectors(sector0, sector1, root) ==
    LET toc     == StampTOC(parseTOC(sector0, sector1))
        sectors == reconstructTOC(toc)
        tfs     == createTFSStructure(root)
        padding == SectorSize - Len(tfs.bytes) - OFFSET
    IN  IF ~tfs.ok \/ padding < 0
        THEN [ok |-> FALSE, sectors |-> << >>]
        ELSE [ok |-> TRUE,
              sectors |-> << << 0, sectors[1] >>, << 1, sectors[2] >>,
                             << 2, [lead |-> OFFSET, tfs |-> tfs.bytes, pad |-> padding] >> >>]

\* getTFS: sector 2 from OFFSET on, parsed; an empty root when that throws.
\* st is "loop" when parseTFSStructure never returns.
getTFSRoot(sector2) ==
    LET parsed == parseTFSStructure(Slice(SectorBytes(sector2), OFFSET, SectorSize))
    IN  IF parsed.st = "error" THEN [st |-> "ok", dir |-> FSDirectory(<< >>)]
        ELSE [st |-> parsed.st, dir |-> parsed.dir]

(***************************************************************************)
(* Callers of the coordinator.  A caller makes the calls of its plan one   *)
(* after the other: "init" (init(): Cache.init, then refreshCache),        *)
(* "unlink" (deleteTrack), "flush" (Cache.flushCache), "upload"            *)
(* (startAudioWriteTransfer) and "read" (startReadTransfer, not awaited).  *)
(***************************************************************************)
\* Callers besides init().
NTasks == 2

Tasks == 0..NTasks

Ticket(method, t) == << method, t >>

IdleTask ==
    [pc |-> "idle", call |-> 0, outer |-> "none", index |-> 0, ok |-> TRUE,
     pending |-> << >>, wrote |-> << >>, committed |-> FALSE, failed |-> FALSE,
     read |-> << >>]

\* The call the caller is in.
CurOp(t) == plan[t][tasks[t].call]

\* The current call is over; failed tells whether it threw.
CallOver(task, failed) ==
    [task EXCEPT !.pc = "idle", !.outer = "none", !.failed = failed]

CanCall(t, op) ==
    /\ tasks[t].pc = "idle"
    /\ tasks[t].call < Len(plan[t])
    /\ plan[t][tasks[t].call + 1] = op
    /\ op = "init" \/ mounted

----------------------------------------------------------------------------
\* init(): cah.init() calls transferManager.getTFS().
CallInit(t) ==
    /\ CanCall(t, "init")
    /\ tasks' = [tasks EXCEPT ![t].pc = "getTFS:wait", ![t].call = @ + 1,
                              ![t].failed = FALSE]
    /\ mutex' = asyncMutexEnter(mutex, Ticket("getTFS", t))
    /\ UNCHANGED << dev, cache, plan, flushes, mounted, streamVars >>

GetTFSBody(t) ==
    /\ tasks[t].pc = "getTFS:wait"
    /\ Granted(mutex, Ticket("getTFS", t))
    /\ tasks' = [tasks EXCEPT ![t].pc = "getTFS:body"]
    /\ UNCHANGED << mutex, dev, cache, plan, flushes, mounted, streamVars >>

\* getTFS returns the root, Cache.init stores it, and init() goes on to
\* refreshCache, which calls getDiscState.  A parse that never returns
\* leaves the call in the body.
GetTFSDone(t) ==
    /\ tasks[t].pc = "getTFS:body"
    /\ LET root == getTFSRoot(dev.utoc[3])
       IN  /\ root.st = "ok"
           /\ cache' = [cache EXCEPT !.filesystem = root.dir]
    /\ tasks' = [tasks EXCEPT ![t].pc = "getDiscState:wait"]
    /\ mutex' = asyncMutexEnter(asyncMutexExit(mutex), Ticket("getDiscState", t))
    /\ UNCHANGED << dev, plan, flushes, mounted, streamVars >>

----------------------------------------------------------------------------
\* refreshCache, called by init(), flushCache and deleteTrack.
GetDiscStateBody(t) ==
    /\ tasks[t].pc = "getDiscState:wait"
    /\ Granted(mutex, Ticket("getDiscState", t))
    /\ tasks' = [tasks EXCEPT ![t].pc = "getDiscState:body"]
    /\ UNCHANGED << mutex, dev, cache, plan, flushes, mounted, streamVars >>

\* getDiscState returns; refreshCache stores the listing, finds nextFileID
\* and calls getTOC.
GetDiscStateDone(t) ==
    /\ tasks[t].pc = "getDiscState:body"
    /\ cache' = [cache EXCEPT !.disc = listContent(dev),
                              !.nextFileID = NextFileID(listContent(dev))]
    /\ tasks' = [tasks EXCEPT ![t].pc = "getTOC:wait"]
    /\ mutex' = asyncMutexEnter(asyncMutexExit(mutex), Ticket("getTOC", t))
    /\ UNCHANGED << dev, plan, flushes, mounted, streamVars >>

GetTOCBody(t) ==
    /\ tasks[t].pc = "getTOC:wait"
    /\ Granted(mutex, Ticket("getTOC", t))
    /\ tasks' = [tasks EXCEPT ![t].pc = "getTOC:body"]
    /\ UNCHANGED << mutex, dev, cache, plan, flushes, mounted, streamVars >>

\* getTOC returns and refreshCache ends (trackSectorLengths, which no
\* coordinator method reads, is left out).  Its caller goes on: init() is
\* done and mounts; deleteTrack returns and its wrapper releases; flushCache
\* returns.
GetTOCDone(t) ==
    /\ tasks[t].pc = "getTOC:body"
    /\ tasks' = [tasks EXCEPT ![t] = CallOver(@, FALSE)]
    /\ mutex' = IF tasks[t].outer = "deleteTrack"
                THEN asyncMutexExit(asyncMutexExit(mutex))
                ELSE asyncMutexExit(mutex)
    /\ mounted' = (mounted \/ CurOp(t) = "init")
    /\ UNCHANGED << dev, cache, plan, flushes, streamVars >>

----------------------------------------------------------------------------
\* unlink: transferManager.deleteTrack(index), for a track of the listing.
CallDeleteTrack(t, index) ==
    /\ CanCall(t, "unlink")
    /\ index \in { cache.disc[i].index : i \in 1..Len(cache.disc) }
    /\ tasks' = [tasks EXCEPT ![t].pc = "deleteTrack:wait", ![t].call = @ + 1,
                              ![t].index = index, ![t].failed = FALSE]
    /\ mutex' = asyncMutexEnter(mutex, Ticket("deleteTrack", t))
    /\ UNCHANGED << dev, cache, plan, flushes, mounted, streamVars >>

DeleteTrackBody(t) ==
    /\ tasks[t].pc = "deleteTrack:wait"
    /\ Granted(mutex, Ticket("deleteTrack", t))
    /\ tasks' = [tasks EXCEPT ![t].pc = "deleteTrack:erase"]
    /\ UNCHANGED << mutex, dev, cache, plan, flushes, mounted, streamVars >>

\* eraseTrack is done.  When it succeeded, deleteTrack calls
\* cache.refreshCache(), which calls getDiscState, a coordinator method,
\* from inside the deleteTrack body.  When the track is not there (erased
\* since the listing) the driver throws and the wrapper releases.
DeleteTrackErased(t) ==
    /\ tasks[t].pc = "deleteTrack:erase"
    /\ IF tasks[t].index < dev.utoc[1].nTracks
       THEN /\ dev' = eraseTrack(dev, tasks[t].index)
            /\ tasks' = [tasks EXCEPT ![t].pc = "getDiscState:wait",
                                      ![t].outer = "deleteTrack"]
            /\ mutex' = asyncMutexEnter(mutex, Ticket("getDiscState", t))
       ELSE /\ tasks' = [tasks EXCEPT ![t] = CallOver(@, TRUE)]
            /\ mutex' = asyncMutexExit(mutex)
            /\ UNCHANGED dev
    /\ UNCHANGED << cache, plan, flushes, mounted, streamVars >>

----------------------------------------------------------------------------
\* flushCache: transferManager.writeTOC(this.filesystem).
CallFlushCache(t) ==
    /\ CanCall(t, "flush")
    /\ tasks' = [tasks EXCEPT ![t].pc = "writeTOC:wait", ![t].call = @ + 1,
                              ![t].wrote = << >>, ![t].committed = FALSE,
                              ![t].pending = << >>, ![t].failed = FALSE]
    /\ mutex' = asyncMutexEnter(mutex, Ticket("writeTOC", t))
    /\ UNCHANGED << dev, cache, plan, flushes, mounted, streamVars >>

WriteTOCBody(t) ==
    /\ tasks[t].pc = "writeTOC:wait"
    /\ Granted(mutex, Ticket("writeTOC", t))
    /\ tasks' = [tasks EXCEPT ![t].pc = "writeTOC:read"]
    /\ UNCHANGED << mutex, dev, cache, plan, flushes, mounted, streamVars >>

\* Sectors 0 and 1 are read; the sectors to write are built.
WriteTOCPrepare(t) ==
    /\ tasks[t].pc = "writeTOC:read"
    /\ LET w == writeTOCSectors(dev.utoc[1], dev.utoc[2], cache.filesystem)
       IN  tasks' = [tasks EXCEPT ![t].pc = "writeTOC:write", ![t].ok = w.ok,
                                  ![t].pending = w.sectors,
                                  ![t].read = << dev.utoc[1], dev.utoc[2] >>]
    /\ UNCHANGED << mutex, dev, cache, plan, flushes, mounted, streamVars >>

\* writeUTOCSector(i, sector), one sector per await.
WriteTOCSector(t) ==
    /\ tasks[t].pc = "writeTOC:write"
    /\ tasks[t].pending # << >>
    /\ LET w == Head(tasks[t].pending)
       IN  /\ dev' = [dev EXCEPT !.utoc[w[1] + 1] = w[2], !.dirty = TRUE]
           /\ tasks' = [tasks EXCEPT ![t].pending = Tail(@), ![t].wrote = Append(@, w)]
    /\ UNCHANGED << mutex, cache, plan, flushes, mounted, streamVars >>

\* forceTOCEdit; writeTOC returns and flushCache calls refreshCache.
WriteTOCCommit(t) ==
    /\ tasks[t].pc = "writeTOC:write"
    /\ tasks[t].pending = << >>
    /\ tasks[t].ok
    /\ dev' = [dev EXCEPT !.dirty = FALSE]
    /\ tasks' = [tasks EXCEPT ![t].pc = "getDiscState:wait", ![t].committed = TRUE]
    /\ flushes' = [flushes EXCEPT ![t] = Append(@, [writes |-> tasks[t].wrote, utoc |-> dev.utoc,
                                                    read |-> tasks[t].read])]
    /\ mutex' = asyncMutexEnter(asyncMutexExit(mutex), Ticket("getDiscState", t))
    /\ UNCHANGED << cache, plan, mounted, streamVars >>

\* writeTOC throws: the wrapper releases, flushCache rejects.
WriteTOCThrow(t) ==
    /\ tasks[t].pc = "writeTOC:write"
    /\ tasks[t].pending = << >>
    /\ ~tasks[t].ok
    /\ tasks' = [tasks EXCEPT ![t] = CallOver(@, TRUE)]
    /\ mutex' = asyncMutexExit(mutex)
    /\ UNCHANGED << dev, cache, plan, flushes, mounted, streamVars >>

----------------------------------------------------------------------------
\* startFileWriteTransfer(cache.nextFileID, data), as create and open call
\* it: startAudioWriteTransfer(`h_fs_..`, ...) for a new hidden track.
CallStartAudioWriteTransfer(t) ==
    /\ CanCall(t, "upload")
    /\ tasks' = [tasks EXCEPT ![t].pc = "upload:wait", ![t].call = @ + 1,
                              ![t].index = cache.nextFileID, ![t].failed = FALSE]
    /\ mutex' = asyncMutexEnter(mutex, Ticket("startAudioWriteTransfer", t))
    /\ UNCHANGED << dev, cache, plan, flushes, mounted, streamVars >>

StartAudioWriteTransferBody(t) ==
    /\ tasks[t].pc = "upload:wait"
    /\ Granted(mutex, Ticket("startAudioWriteTransfer", t))
    /\ tasks' = [tasks EXCEPT ![t].pc = "upload:body"]
    /\ UNCHANGED << mutex, dev, cache, plan, flushes, mounted, streamVars >>

StartAudioWriteTransferDone(t) ==
    /\ tasks[t].pc = "upload:body"
    /\ dev' = uploadTrack(dev, HFSTitle(tasks[t].index))
    /\ tasks' = [tasks EXCEPT ![t] = CallOver(@, FALSE)]
    /\ mutex' = asyncMutexExit(mutex)
    /\ UNCHANGED << cache, plan, flushes, mounted, streamVars >>

----------------------------------------------------------------------------
\* startReadTransfer(...), as getContents calls it: not awaited.
CallStartReadTransfer(t) ==
    /\ CanCall(t, "read")
    /\ tasks' = [tasks EXCEPT ![t].call = @ + 1]
    /\ transfers' = Append(transfers, NewTransfer)
    /\ mutex' = asyncMutexEnter(mutex, TransferTicket(Len(transfers) + 1))
    /\ UNCHANGED << dev, cache, plan, flushes, mounted, fileVars, readers, track >>

----------------------------------------------------------------------------
\* mkdir: parent.add(new FSDirectory(fileName)) on the root; nothing is
\* flushed.
Mkdir(t, name) ==
    /\ CanCall(t, "mkdir")
    /\ tasks' = [tasks EXCEPT ![t].call = @ + 1]
    /\ cache' = [cache EXCEPT !.filesystem = DirAdd(@, FSDirectory(name))]
    /\ UNCHANGED << dev, plan, flushes, mounted, mutex, streamVars >>

(***************************************************************************)
(* VFS adapter (index.ts): paths, the FS tree as the callbacks mutate it,  *)
(* and the open-files vector.  A path is a sequence of character codes,    *)
(* 47 being "/".  The callbacks are modelled for paths of the TFS tree     *)
(* (not under /$system/ or /$audio/).                                      *)
(***************************************************************************)
\* null: a free slot of openFiles, a path that resolves to nothing.
NoNode == [kind |-> "none"]

\* String.prototype.split("/")
Split(str) ==
    LET cuts == { i \in 1..Len(str) : str[i] = 47 } \cup { 0, Len(str) + 1 }
        Cut(k) == CHOOSE c \in cuts : Cardinality({ d \in cuts : d < c }) = k - 1
    IN  [k \in 1..(Cardinality(cuts) - 1) |-> SubSeq(str, Cut(k) + 1, Cut(k + 1) - 1)]

\* getFileName: the last fragment of the path.
getFileName(path) == Split(path)[Len(Split(path))]

\* path.substring(0, path.length - name.length)
ParentName(path, name) == SubSeq(path, 1, Len(path) - Len(name))

\* FSDirectory.getFile
getFile(dir, name) ==
    IF \E i \in 1..Len(dir.files) : dir.files[i].name = name
    THEN dir.files[CHOOSE i \in 1..Len(dir.files) : dir.files[i].name = name]
    ELSE NoNode

RECURSIVE Walk(_, _)
\* The loop of FSDirectory.traverse: an empty fragment is skipped, the first
\* File met is returned whatever follows it, a missing name gives null.
Walk(current, dirs) ==
    IF dirs = << >> THEN current
    ELSE IF Head(dirs) = << >> THEN Walk(current, Tail(dirs))
    ELSE LET next == getFile(current, Head(dirs))
         IN  IF IsFile(next) THEN next
             ELSE IF next = NoNode THEN NoNode
             ELSE Walk(next, Tail(dirs))

traverse(root, name) == Walk(root, Split(name))

\* A test that lets a directory with one child pass for empty.
HasManyChildren(dir) == Len(dir.files) > 1

\* Object.keys(file.files).length !== 0
HasChildren(dir) == Len(dir.files) # 0

\* A removal that leaves the entry where it is.
DirRemoveNone(dir, name) == dir

\* delete parent.files[name]
DirRemove(dir, name) ==
    LET keep == { i \in 1..Len(dir.files) : dir.files[i].name # name }
        Kept(k) == CHOOSE i \in keep : Cardinality({ j \in keep : j < i }) = k - 1
    IN  [dir EXCEPT !.files = [k \in 1..Cardinality(keep) |-> dir.files[Kept(k)]]]

RECURSIVE PutDir(_, _, _)
\* The tree after the directory that `dirs` leads to has become newDir (the
\* callbacks change the directory object traverse returned, in place).
PutDir(current, dirs, newDir) ==
    IF dirs = << >> THEN newDir
    ELSE IF Head(dirs) = << >> THEN PutDir(current, Tail(dirs), newDir)
    ELSE [current EXCEPT !.files =
             [i \in 1..Len(current.files) |->
                 IF current.files[i].name = Head(dirs)
                 THEN PutDir(current.files[i], Tail(dirs), newDir)
                 ELSE current.files[i]]]

RECURSIVE SetByteLength(_, _, _)
\* cachedFile.byteLength = ...: the FSFile object a write handle made is
\* told from the other nodes by its creation number, oid.
SetByteLength(n, oid, byteLength) ==
    IF IsDir(n)
    THEN [n EXCEPT !.files = [i \in 1..Len(n.files) |-> SetByteLength(n.files[i], oid, byteLength)]]
    ELSE IF "oid" \in DOMAIN n /\ n.oid = oid
         THEN [n EXCEPT !.byteLength = byteLength]
         ELSE n

\* An allocation that always extends the vector.
addHandlePush(table, entry) == [table |-> Append(table, entry), fd |-> Len(table)]

\* addHandle: the first null slot is reused, else the vector grows.
addHandle(table, entry) ==
    LET firstDeleted == IndexOf(table, NoNode)
    IN  IF firstDeleted = -1
        THEN [table |-> Append(table, entry), fd |-> Len(table)]
        ELSE [table |-> [table EXCEPT ![firstDeleted + 1] = entry], fd |-> firstDeleted]

\* A test of the vector's length only.
isInRange(fd) == Len(openFiles) > fd

isValidHandle(fd) == Len(openFiles) > fd /\ openFiles[fd + 1] # NoNode

getHandle(fd) == openFiles[fd + 1]

\* invalidateHandle: openFiles[fd] = null.
invalidateHandle(table, fd) == [table EXCEPT ![fd + 1] = NoNode]

\* fsFileToReadHandle(file): a handle with read only.
ReadHandle(path) == [kind |-> "read", oid |-> 0, trackID |-> 0, path |-> path]

\* The handle open and create build around cachedFile: close and write.
WriteHandle(path, oid, idToUse) == [kind |-> "write", oid |-> oid, trackID |-> idToUse, path |-> path]

\* A call of the callback's cb.
Reply(code, val) == [code |-> code, val |-> val]

\* A caller with no callback running: seq counts the callbacks it has run.
IdleCall == [pc |-> "idle", seq |-> 0, op |-> "none", args |-> << >>, id |-> 0, reply |-> << >>]

----------------------------------------------------------------------------
\* Callbacks the kernel issues in one run, and in a run of opens and
\* releases only.
MaxOps == 3
MaxHandleOps == 5

CallsMade == LET n[t \in -1..NTasks] == IF t = -1 THEN 0 ELSE n[t - 1] + calls[t].seq
             IN  n[NTasks]

\* The callback of caller t is over: it returned or it threw.
CallbackOver(t) == calls[t].pc \in { "idle", "thrown" }

\* Caller t has no callback running and none whose outcome is still noted.
CallerFree(t) == calls[t].pc = "idle" /\ calls[t].op = "none"

\* The kernel may issue a callback on caller t (callers are taken in order,
\* and the outcome of a finished callback is taken first).
CanStart(t) ==
    /\ mounted
    /\ CallerFree(t)
    /\ \A u \in 0..(t - 1) : ~CallbackOver(u)
    /\ \A u \in Tasks : CallbackOver(u) => CallerFree(u)

Started(t, op, args) ==
    [pc |-> "idle", seq |-> calls[t].seq + 1, op |-> op, args |-> args, id |-> 0, reply |-> << >>]

\* The callback calls cb and returns.
Replied(c, code, val) == [c EXCEPT !.pc = "idle", !.reply = Append(@, Reply(code, val))]

\* The callback throws: its promise rejects and cb is not called.
Thrown(c) == [c EXCEPT !.pc = "thrown"]

\* The outcome of a finished callback is taken by the kernel.
Return(t) ==
    /\ CallbackOver(t)
    /\ calls[t].op # "none"
    /\ calls' = [calls EXCEPT ![t] = [IdleCall EXCEPT !.seq = calls[t].seq]]
    /\ UNCHANGED << mutex, coordVars, streamVars, openFiles, cachedFiles >>

\* A call that passes the cache's next id instead of its argument.
AwaitNextID(t, op, pc, index, method) ==
    /\ tasks' = [tasks EXCEPT ![t].pc = pc, ![t].call = @ + 1, ![t].index = cache.nextFileID,
                              ![t].wrote = << >>, ![t].committed = FALSE,
                              ![t].pending = << >>, ![t].failed = FALSE]
    /\ plan' = [plan EXCEPT ![t] = Append(@, op)]
    /\ mutex' = asyncMutexEnter(mutex, Ticket(method, t))

\* The callback awaits a coordinator method: the wrapper's acquire().
Await(t, op, pc, index, method) ==
    /\ tasks' = [tasks EXCEPT ![t].pc = pc, ![t].call = @ + 1, ![t].index = index,
                              ![t].wrote = << >>, ![t].committed = FALSE,
                              ![t].pending = << >>, ![t].failed = FALSE]
    /\ plan' = [plan EXCEPT ![t] = Append(@, op)]
    /\ mutex' = asyncMutexEnter(mutex, Ticket(method, t))

\* No coordinator method is called.
NoDeviceCall == UNCHANGED << tasks, plan, mutex >>

\* open (write branch) and create, from `new FSFile(idToUse, fileName, 0)`
\* on: the new File replaces or joins the parent's entries, and the handle
\* is added.  Without a parent directory parent.add throws.
OpenWrite(t, c, path, idToUse) ==
    LET fileName == getFileName(path)
        parentName == ParentName(path, fileName)
        parent == traverse(cache.filesystem, parentName)
        oid == Len(cachedFiles) + 1
        cachedFile == [kind |-> "file", trackID |-> idToUse, name |-> fileName,
                       byteLength |-> U32(0, 0), oid |-> oid]
        added == addHandle(openFiles, WriteHandle(path, oid, idToUse))
    IN  IF IsDir(parent)
        THEN /\ cache' = [cache EXCEPT !.filesystem =
                             PutDir(@, Split(parentName), DirAdd(parent, cachedFile))]
             /\ cachedFiles' = Append(cachedFiles, [contents |-> << >>, complete |-> FALSE])
             /\ openFiles' = added.table
             /\ calls' = [calls EXCEPT ![t] = Replied(c, "OK", added.fd)]
        ELSE /\ calls' = [calls EXCEPT ![t] = Thrown(c)]
             /\ UNCHANGED << cache, cachedFiles, openFiles >>

\* callbacks.open, for a path of the TFS tree.  cb(EACCES, 0) for the flags
\* is not followed by a return.
Open(t, path, flags) ==
    /\ CanStart(t)
    /\ LET masked == flags % 4
           c == [Started(t, "open", << path, flags >>) EXCEPT
                    !.reply = IF masked # 0 /\ masked # 1
                              THEN << Reply("EACCES", 0) >> ELSE << >>]
           existing == traverse(cache.filesystem, path)
       IN  IF masked = 0
           THEN /\ IF ~IsFile(existing)
                   THEN /\ calls' = [calls EXCEPT ![t] = Replied(c, "EPERM", 0)]
                        /\ UNCHANGED openFiles
                   ELSE LET added == addHandle(openFiles, ReadHandle(path))
                        IN  /\ openFiles' = added.table
                            /\ calls' = [calls EXCEPT ![t] = Replied(c, "OK", added.fd)]
                /\ UNCHANGED << cache, cachedFiles >>
                /\ NoDeviceCall
           ELSE IF IsFile(existing) /\ existing.byteLength # U32(0, 0)
           THEN LET trackIndex == resolveIDToIndex(cache.disc, existing.trackID)
                IN  IF trackIndex = -1
                    THEN /\ calls' = [calls EXCEPT ![t] = Replied(c, "EPERM", 0)]
                         /\ NoDeviceCall
                         /\ UNCHANGED << cache, cachedFiles, openFiles >>
                    ELSE /\ calls' = [calls EXCEPT ![t] =
                                         [c EXCEPT !.pc = "open:delete", !.id = existing.trackID]]
                         /\ Await(t, "unlink", "deleteTrack:wait", trackIndex, "deleteTrack")
                         /\ UNCHANGED << cache, cachedFiles, openFiles >>
           ELSE IF IsDir(existing)
           THEN /\ calls' = [calls EXCEPT ![t] = Replied(c, "EPERM", 0)]
                /\ NoDeviceCall
                /\ UNCHANGED << cache, cachedFiles, openFiles >>
           ELSE /\ OpenWrite(t, c, path, IF IsFile(existing) THEN existing.trackID
                                         ELSE cache.nextFileID)
                /\ NoDeviceCall
    /\ UNCHANGED << dev, flushes, mounted, streamVars >>

\* callbacks.create, for a path of the TFS tree.
Create(t, path) ==
    /\ CanStart(t)
    /\ OpenWrite(t, Started(t, "create", << path >>), path, cache.nextFileID)
    /\ NoDeviceCall
    /\ UNCHANGED << dev, flushes, mounted, streamVars >>

\* callbacks.read.  The bytes of a read handle come from FSFile.getContents,
\* the streaming buffer above; the callback changes nothing else.
Read(t, fd) ==
    /\ CanStart(t)
    /\ LET c == Started(t, "read", << fd >>)
       IN  calls' = [calls EXCEPT ![t] =
                IF ~isValidHandle(fd) THEN Replied(c, "EACCES", 0)
                ELSE IF getHandle(fd).kind # "read" THEN Replied(c, "EPERM", 0)
                ELSE Replied(c, "DATA", 0)]
    /\ NoDeviceCall
    /\ UNCHANGED << dev, cache, flushes, mounted, streamVars, openFiles, cachedFiles >>

\* handle.write of a write handle: the buffer grows to offset + data.length,
\* `length` bytes of data are copied, byteLength follows the buffer.
HandleWrite(contents0, offset, length, data) ==
    LET absoluteEnd == offset + Len(data)
        grown == IF Len(contents0) < absoluteEnd
                 THEN contents0 \o ZeroBytes(absoluteEnd - Len(contents0))
                 ELSE contents0
    IN  [i \in 1..Len(grown) |->
            IF i > offset /\ i <= offset + length
            THEN IF i - offset <= Len(data) THEN data[i - offset] ELSE 0
            ELSE grown[i]]

\* callbacks.write
Write(t, fd, position, length, buffer) ==
    /\ CanStart(t)
    /\ LET c == Started(t, "write", << fd, position, length, buffer >>)
       IN  IF ~isValidHandle(fd)
           THEN /\ calls' = [calls EXCEPT ![t] = Replied(c, "EACCES", 0)]
                /\ UNCHANGED << cache, cachedFiles >>
           ELSE IF getHandle(fd).kind # "write"
           THEN /\ calls' = [calls EXCEPT ![t] = Replied(c, "EPERM", 0)]
                /\ UNCHANGED << cache, cachedFiles >>
           ELSE LET oid == getHandle(fd).oid
                    written == HandleWrite(cachedFiles[oid].contents, position, length, buffer)
                IN  /\ cachedFiles' = [cachedFiles EXCEPT ![oid].contents = written]
                    /\ cache' = [cache EXCEPT !.filesystem =
                                    SetByteLength(@, oid, U32(0, Len(written)))]
                    /\ calls' = [calls EXCEPT ![t] = Replied(c, "OK", length)]
    /\ NoDeviceCall
    /\ UNCHANGED << dev, flushes, mounted, streamVars, openFiles >>

\* callbacks.release, up to its first wait for the coordinator.
\* handle.close marks the buffer complete and, when it holds bytes, calls
\* startFileWriteTransfer(idToUse, contents).
Release(t, fd) ==
    /\ CanStart(t)
    /\ LET c == Started(t, "release", << fd >>)
       IN  IF ~isValidHandle(fd)
           THEN /\ calls' = [calls EXCEPT ![t] = Replied(c, "EACCES", 0)]
                /\ NoDeviceCall
                /\ UNCHANGED << openFiles, cachedFiles >>
           ELSE IF getHandle(fd).kind # "write"
           THEN /\ openFiles' = invalidateHandle(openFiles, fd)
                /\ calls' = [calls EXCEPT ![t] = Replied(c, "OK", 0)]
                /\ NoDeviceCall
                /\ UNCHANGED cachedFiles
           ELSE LET h == getHandle(fd)
                IN  /\ cachedFiles' = [cachedFiles EXCEPT ![h.oid].complete = TRUE]
                    /\ IF cachedFiles[h.oid].contents # << >>
                       THEN /\ calls' = [calls EXCEPT ![t] = [c EXCEPT !.pc = "release:upload"]]
                            /\ Await(t, "upload", "upload:wait", h.trackID,
                                     "startAudioWriteTransfer")
                            /\ UNCHANGED openFiles
                       ELSE /\ openFiles' = invalidateHandle(openFiles, fd)
                            /\ calls' = [calls EXCEPT ![t] = Replied(c, "OK", 0)]
                            /\ NoDeviceCall
    /\ UNCHANGED << dev, cache, flushes, mounted, streamVars >>

\* callbacks.unlink, for a path of the TFS tree.
Unlink(t, path) ==
    /\ CanStart(t)
    /\ LET c == Started(t, "unlink", << path >>)
           file == traverse(cache.filesystem, path)
           parentName == ParentName(path, file.name)
           parent == traverse(cache.filesystem, parentName)
       IN  IF file = NoNode
           THEN /\ calls' = [calls EXCEPT ![t] = Replied(c, "ENOENT", 0)]
                /\ NoDeviceCall
                /\ UNCHANGED cache
           ELSE IF IsDir(file) /\ HasChildren(file)
           THEN /\ calls' = [calls EXCEPT ![t] = Replied(c, "ENOTEMPTY", 0)]
                /\ NoDeviceCall
                /\ UNCHANGED cache
           ELSE IF ~IsDir(parent)
           THEN /\ calls' = [calls EXCEPT ![t] = Thrown(c)]
                /\ NoDeviceCall
                /\ UNCHANGED cache
           ELSE /\ cache' = [cache EXCEPT !.filesystem =
                                PutDir(@, Split(parentName), DirRemove(parent, file.name))]
                /\ IF IsFile(file)
                   THEN LET trackIndex == resolveIDToIndex(cache.disc, file.trackID)
                        IN  IF trackIndex = -1
                            THEN /\ calls' = [calls EXCEPT ![t] = Replied(c, "ENOENT", 0)]
                                 /\ NoDeviceCall
                            ELSE /\ calls' = [calls EXCEPT ![t] = [c EXCEPT !.pc = "unlink:delete"]]
                                 /\ Await(t, "unlink", "deleteTrack:wait", trackIndex,
                                          "deleteTrack")
                   ELSE /\ calls' = [calls EXCEPT ![t] = Replied(c, "OK", 0)]
                        /\ NoDeviceCall
    /\ UNCHANGED << dev, flushes, mounted, streamVars, openFiles, cachedFiles >>

\* callbacks.mkdir
MkdirAt(t, path) ==
    /\ CanStart(t)
    /\ LET c == Started(t, "mkdir", << path >>)
           fileName == getFileName(path)
           parentName == ParentName(path, fileName)
           parent == traverse(cache.filesystem, parentName)
       IN  IF ~IsDir(parent)
           THEN /\ calls' = [calls EXCEPT ![t] = Replied(c, "EPERM", 0)]
                /\ UNCHANGED cache
           ELSE /\ cache' = [cache EXCEPT !.filesystem =
                                PutDir(@, Split(parentName),
                                       DirAdd(parent, FSDirectory(fileName)))]
                /\ calls' = [calls EXCEPT ![t] = Replied(c, "OK", 0)]
    /\ NoDeviceCall
    /\ UNCHANGED << dev, flushes, mounted, streamVars, openFiles, cachedFiles >>

\* callbacks.rename
Rename(t, src, dest) ==
    /\ CanStart(t)
    /\ LET c == Started(t, "rename", << src, dest >>)
           root == cache.filesystem
           file == traverse(root, src)
           parentName == ParentName(src, file.name)
           parent == traverse(root, parentName)
           destName == getFileName(dest)
           destParentName == ParentName(dest, destName)
           destParent == traverse(root, destParentName)
           removed == PutDir(root, Split(parentName), DirRemove(parent, file.name))
       IN  IF file = NoNode
           THEN /\ calls' = [calls EXCEPT ![t] = Replied(c, "ENOENT", 0)]
                /\ UNCHANGED cache
           ELSE IF traverse(root, dest) # NoNode \/ ~IsDir(parent)
           THEN /\ calls' = [calls EXCEPT ![t] = Replied(c, "EPERM", 0)]
                /\ UNCHANGED cache
           ELSE IF ~IsDir(destParent)
           THEN /\ calls' = [calls EXCEPT ![t] = Replied(c, "EPERM", 0)]
                /\ UNCHANGED cache
           ELSE /\ cache' = [cache EXCEPT !.filesystem =
                                \* destParent is the moved directory or lies under
                                \* it: the directory was cut from its parent and is
                                \* then added to a node the root no longer reaches
                                IF traverse(removed, destParentName) = NoNode
                                THEN removed
                                ELSE PutDir(removed, Split(destParentName),
                                            DirAdd(traverse(removed, destParentName),
                                                   [file EXCEPT !.name = destName]))]
                /\ calls' = [calls EXCEPT ![t] = Replied(c, "OK", 0)]
    /\ NoDeviceCall
    /\ UNCHANGED << dev, flushes, mounted, streamVars, openFiles, cachedFiles >>

\* The coordinator method a callback awaited has returned or thrown, and the
\* callback goes on: open builds its handle after deleteTrack; unlink
\* replies after deleteTrack; release's close calls cache.flushCache()
\* after the upload and, after the flush, release invalidates the fd and
\* replies.  A throw rejects the callback.
Resume(t) ==
    /\ calls[t].pc \in { "open:delete", "unlink:delete", "release:upload", "release:flush" }
    /\ tasks[t].pc = "idle"
    /\ LET c == calls[t]
       IN  IF tasks[t].failed
           THEN /\ calls' = [calls EXCEPT ![t] = Thrown(c)]
                /\ NoDeviceCall
                /\ UNCHANGED << cache, openFiles, cachedFiles >>
           ELSE CASE c.pc = "open:delete" ->
                       /\ OpenWrite(t, c, c.args[1], c.id)
                       /\ NoDeviceCall
                  [] c.pc = "unlink:delete" ->
                       /\ calls' = [calls EXCEPT ![t] = Replied(c, "OK", 0)]
                       /\ NoDeviceCall
                       /\ UNCHANGED << cache, openFiles, cachedFiles >>
                  [] c.pc = "release:upload" ->
                       /\ calls' = [calls EXCEPT ![t].pc = "release:flush"]
                       /\ Await(t, "flush", "writeTOC:wait", tasks[t].index, "writeTOC")
                       /\ UNCHANGED << cache, openFiles, cachedFiles >>
                  [] c.pc = "release:flush" ->
                       /\ openFiles' = invalidateHandle(openFiles, c.args[1])
                       /\ calls' = [calls EXCEPT ![t] = Replied(c, "OK", 0)]
                       /\ NoDeviceCall
                       /\ UNCHANGED << cache, cachedFiles >>
    /\ UNCHANGED << dev, flushes, mounted, streamVars >>

(***************************************************************************)
(* Discs and trees the coordinator runs start from.                        *)
(***************************************************************************)
\* Length of the long directory names.
DirNameLen == 250
LongDirName(i) == [j \in 1..DirNameLen |-> IF j = 1 THEN 96 + i ELSE 120]

\* A root of n directories with long names.
BigTree(n) ==
    [kind |-> "dir", name |-> << >>,
     files |-> [i \in 1..n |-> FSDirectory(LongDirName(i))]]

\* How many long-named directories fit sector 2 after OFFSET, and how many
\* take the encoding over the TFS limit.
RootLen == Len(TFSBytes(BigTree(0)))
DirLen == Len(TFSBytes(BigTree(1))) - RootLen
DirsThatFit == (SectorSize - OFFSET - RootLen) \div DirLen
DirsOverLimit == ((TFSLimit - RootLen) \div DirLen) + 1

SmallTree == [kind |-> "dir", name |-> << >>, files |-> << FSFile(1, << 97 >>, U32(0, 4)) >>]

Frag(mode, link) == [mode |-> mode, link |-> link]

\* Sector 2 as writeTOC leaves it for a tree.
SectorOf(root) ==
    LET b == TFSBytes(root)
    IN  [lead |-> OFFSET, tfs |-> b, pad |-> SectorSize - OFFSET - Len(b)]

\* A blank disc.
DiscEmpty ==
    [utoc |-> << [nTracks |-> 0, trackMap |-> << >>, trackFragmentList |-> << >>],
                 << >>, BlankSector >>,
     dirty |-> FALSE]

\* A hidden track as uploaded (LP2, writable) and a song; no TFS yet.
DiscFresh ==
    [utoc |-> << [nTracks |-> 2, trackMap |-> << 1, 2 >>,
                  trackFragmentList |-> << Frag({ "STEREO", "WRITABLE" }, 0),
                                           Frag({ "SP_MODE", "STEREO", "WRITABLE" }, 0) >>],
                 << HFSTitle(0), << "S" >> >>, BlankSector >>,
     dirty |-> FALSE]

\* A hidden track of two fragments, a song and an untitled track; the TFS
\* names the hidden track.
DiscChained ==
    [utoc |-> << [nTracks |-> 3, trackMap |-> << 1, 2, 4 >>,
                  trackFragmentList |-> << Frag({ "STEREO", "WRITABLE" }, 3),
                                           Frag({ "SP_MODE", "STEREO", "WRITABLE" }, 0),
                                           Frag({ "WRITABLE" }, 0),
                                           Frag({ "STEREO" }, 0) >>],
                 << HFSTitle(1), << "S" >>, << >> >>, SectorOf(SmallTree) >>,
     dirty |-> FALSE]

\* A song, and a TFS that nearly fills sector 2.
DiscFull ==
    [utoc |-> << [nTracks |-> 1, trackMap |-> << 1 >>,
                  trackFragmentList |-> << Frag({ "SP_MODE", "STEREO" }, 0) >>],
                 << << "S" >> >>, SectorOf(BigTree(DirsThatFit)) >>,
     dirty |-> FALSE]

\* A hidden track, a track whose title only begins like a hidden one
\* (h_fs_01x, titled by other software), and a song.
DiscForeign ==
    [utoc |-> << [nTracks |-> 3, trackMap |-> << 1, 2, 3 >>,
                  trackFragmentList |-> << Frag({ "SP_MODE", "STEREO" }, 0),
                                           Frag({ "SP_MODE", "STEREO", "WRITABLE" }, 0),
                                           Frag({ "SP_MODE", "STEREO", "WRITABLE" }, 0) >>],
                 << HFSTitle(0), HFSTitle(1) \o << "x" >>, << "S" >> >>, BlankSector >>,
     dirty |-> FALSE]

EmptyCache ==
    [disc |-> << >>, nextFileID |-> 0, filesystem |-> FSDirectory(<< >>),
     audioFileCache |-> << >>]

\* No VFS callback has run: no handle, no buffer.
VFSIdle ==
    /\ openFiles = << >>
    /\ cachedFiles = << >>
    /\ calls = [t \in Tasks |-> IdleCall]

\* No coordinator call is made.
CoordIdle ==
    /\ dev = DiscEmpty
    /\ cache = EmptyCache
    /\ tasks = [t \in Tasks |-> IdleTask]
    /\ plan = [t \in Tasks |-> << >>]
    /\ flushes = [t \in Tasks |-> << >>]
    /\ mounted = FALSE
    /\ VFSIdle

(***************************************************************************)
(* Codec runs: createTFSStructure on a tree, then parseTFSStructure on the *)
(* bytes (Cache.flushCache writes them, Cache.init reads them back).       *)
(***************************************************************************)
\* Most children a generated directory has.
MaxChildren == 2
\* Length of the name that makes an encoding overflow.
LongNameLen == 2300

TreeNames == { << 97 >>, << 233, 98 >> }
TreeTrackIDs == { 0, 255 }
\* 0, 0xff, 0x100, 0xffff, 0x10000, 0xffffff, 0x1000000, 0x7fffffff,
\* 0x80000000, 0xffffffff
TreeByteLengths ==
    { U32(0, 0), U32(0, 255), U32(0, 256), U32(0, 65535), U32(1, 0), U32(255, 65535),
      U32(256, 0), U32(32767, 65535), U32(32768, 0), U32(65535, 65535) }

TreeFiles == { FSFile(t, n, l) : t \in TreeTrackIDs, n \in TreeNames, l \in TreeByteLengths }

\* The sequences of at most k nodes of S with distinct names.
ChildSeqs(S, k) ==
    UNION { { c \in [1..n -> S] : \A i, j \in 1..n : i # j => c[i].name # c[j].name }
            : n \in 0..k }

DirsOver(S, k) ==
    { [kind |-> "dir", name |-> n, files |-> c] : n \in TreeNames, c \in ChildSeqs(S, k) }

LongName == [i \in 1..LongNameLen |-> 97]

\* Roots: the root directory is named "" (an empty or a freshly parsed disc).
Trees ==
    { [kind |-> "dir", name |-> << >>, files |-> c]
        : c \in ChildSeqs(TreeFiles \cup DirsOver(TreeFiles, 1), MaxChildren) }
    \cup { [kind |-> "dir", name |-> << >>, files |-> << FSFile(0, LongName, U32(0, 1)) >>] }

TFSIdle ==
    /\ tfsTree = FSDirectory(<< >>)
    /\ tfsEnc = [ok |-> FALSE, bytes |-> << >>]
    /\ tfsParsed = [st |-> "none", dir |-> FSDirectory(<< >>), rest |-> << >>]
    /\ tfsPhase = "idle"

TFSInit ==
    /\ tfsTree \in Trees
    /\ tfsEnc = [ok |-> FALSE, bytes |-> << >>]
    /\ tfsParsed = [st |-> "none", dir |-> FSDirectory(<< >>), rest |-> << >>]
    /\ tfsPhase = "tree"
    /\ StreamIdle
    /\ mutex = FreeMutex
    /\ CoordIdle

Encode ==
    /\ tfsPhase = "tree"
    /\ tfsEnc' = createTFSStructure(tfsTree)
    /\ tfsPhase' = IF tfsEnc'.ok THEN "encoded" ELSE "overflow"
    /\ UNCHANGED << tfsTree, tfsParsed, streamVars, mutex, coordVars, vfsVars >>

Parse ==
    /\ tfsPhase = "encoded"
    /\ tfsParsed' = parseTFSStructure(tfsEnc.bytes)
    /\ tfsPhase' = "parsed"
    /\ UNCHANGED << tfsTree, tfsEnc, streamVars, mutex, coordVars, vfsVars >>

TFSNext == Encode \/ Parse

SpecTFS == TFSInit /\ [][TFSNext]_vars

(***************************************************************************)
(* Readers of one buffer and the transfers they start.                     *)
(***************************************************************************)
SpecStreamInit == StreamInit /\ TFSIdle /\ mutex = FreeMutex /\ CoordIdle

StreamNext ==
    \/ \E r \in Readers, range \in ReadRanges :
          GetContents(r, range[1], range[2]) /\ UNCHANGED << tfsVars, coordVars, vfsVars >>
    \/ \E r \in Readers : GetContentsCheck(r) /\ UNCHANGED << tfsVars, coordVars, vfsVars >>
    \/ \E r \in Readers : GetContentsRegister(r) /\ UNCHANGED << tfsVars, coordVars, vfsVars >>
    \/ \E r \in Readers : GetContentsResume(r) /\ UNCHANGED << tfsVars, coordVars, vfsVars >>
    \/ \E r \in Readers : GetContentsSlice(r) /\ UNCHANGED << tfsVars, coordVars, vfsVars >>
    \/ \E k \in 1..Len(transfers) : TransferStep(k) /\ UNCHANGED << tfsVars, coordVars, vfsVars >>

SpecStream == SpecStreamInit /\ [][StreamNext]_vars

\* No startReadTransfer call is still running or pending.
TransfersOver == \A k \in 1..Len(transfers) : transfers[k].pc \in { "done", "failed" }
\* Nothing is left to run: every call made has returned or is suspended.
Quiescent ==
    /\ TransfersOver
    /\ \A r \in Readers : readers[r].pc \in { "idle", "done", "suspended" }

\* C3: however many getContents calls are made on one buffer,
\* startReadTransfer is invoked exactly once for it: once a call has passed
\* its first critical section there is one transfer, and never a second.
C3_OneTransfer ==
    /\ Len(transfers) <= 1
    /\ (\E r \in Readers : readers[r].pc \notin { "idle", "check" }) => Len(transfers) = 1

\* C4: a getContents call returns only when the buffer holds at least
\* start+length bytes or has been marked complete.
C4_NoEarlyReturn ==
    \A r \in Readers :
        readers[r].pc = "done" =>
            \/ readers[r].retLen >= readers[r].start + readers[r].length
            \/ readers[r].retComplete

\* A caller that was suspended has returned before complete was set, with
\* the bytes it asked for in the buffer.
C4_Witness ==
    \E r \in Readers :
        /\ readers[r].pc = "done"
        /\ readers[r].waited
        /\ ~readers[r].retComplete
        /\ readers[r].length > 0

\* C5: a getContents call that returns after complete is set returns the
\* bytes [start, start+length) of the final contents, min(length,
\* max(0, finalLen - start)) of them.
C5_FinalSlice ==
    Quiescent =>
        \A r \in Readers :
            (readers[r].pc = "done" /\ readers[r].retComplete) =>
                LET final == IF contents = Null THEN << >> ELSE contents
                IN  /\ readers[r].ret = Slice(final, readers[r].start,
                                              readers[r].start + readers[r].length)
                    /\ Len(readers[r].ret) =
                          Min(readers[r].length, Max(0, Len(final) - readers[r].start))

\* C6: once markAsComplete has run (and no transfer has failed), no
\* getContents call is left suspended with nothing left to release it.
C6_NoLostWaiter ==
    (complete /\ Quiescent /\ \A k \in 1..Len(transfers) : transfers[k].pc = "done") =>
        \A r \in Readers : readers[r].pc # "suspended"

\* C7: when the driver fails during the streaming read, the waiters of the
\* buffer are released: none stays suspended once the failure has propagated.
C7_FailureReleasesWaiters ==
    (TransfersOver /\ \E k \in 1..Len(transfers) : transfers[k].pc = "failed") =>
        \A r \in Readers : readers[r].pc # "suspended"

\* C8: every tree whose encoding is at most 2300 bytes parses back to
\* itself, up to child ordering (names, trackIDs and byteLengths equal).
C8_RoundTrip ==
    tfsPhase = "parsed" =>
        /\ tfsParsed.st = "ok"
        /\ Canon(tfsParsed.dir) = Canon(tfsTree)

(***************************************************************************)
(* Concurrent VFS callbacks on the coordinator: init(), then the callers,  *)
(* one call each.                                                          *)
(***************************************************************************)
CoordOps == { "unlink", "flush", "upload", "read", "mkdir" }
CoordDiscs == { DiscFresh, DiscChained, DiscFull, DiscForeign }
MkdirNames == { << 100 >>, LongDirName(DirsThatFit + 1) }

CoordInit ==
    /\ dev \in CoordDiscs
    /\ cache = EmptyCache
    /\ tasks = [t \in Tasks |-> IdleTask]
    /\ plan \in { p \in [Tasks -> { << "init" >> } \cup { << op >> : op \in CoordOps }] :
                    \A t \in Tasks : (p[t] = << "init" >>) <=> (t = 0) }
    /\ flushes = [t \in Tasks |-> << >>]
    /\ mounted = FALSE
    /\ mutex = FreeMutex
    /\ contents = Null
    /\ complete = FALSE
    /\ currentWaiting = << >>
    /\ fileMutex = FreeMutex
    /\ readOpts = [audioTrack |-> FALSE]
    /\ readers = [r \in Readers |-> IdleReader]
    /\ transfers = << >>
    /\ track = << ChunkAt(1) >>
    /\ TFSIdle
    /\ VFSIdle

CoordNext ==
    \/ \E t \in Tasks : CallInit(t) /\ UNCHANGED << tfsVars, vfsVars >>
    \/ \E t \in Tasks : GetTFSBody(t) /\ UNCHANGED << tfsVars, vfsVars >>
    \/ \E t \in Tasks : GetTFSDone(t) /\ UNCHANGED << tfsVars, vfsVars >>
    \/ \E t \in Tasks : GetDiscStateBody(t) /\ UNCHANGED << tfsVars, vfsVars >>
    \/ \E t \in Tasks : GetDiscStateDone(t) /\ UNCHANGED << tfsVars, vfsVars >>
    \/ \E t \in Tasks : GetTOCBody(t) /\ UNCHANGED << tfsVars, vfsVars >>
    \/ \E t \in Tasks : GetTOCDone(t) /\ UNCHANGED << tfsVars, vfsVars >>
    \/ \E t \in Tasks, i \in 0..2 : CallDeleteTrack(t, i) /\ UNCHANGED << tfsVars, vfsVars >>
    \/ \E t \in Tasks : DeleteTrackBody(t) /\ UNCHANGED << tfsVars, vfsVars >>
    \/ \E t \in Tasks : DeleteTrackErased(t) /\ UNCHANGED << tfsVars, vfsVars >>
    \/ \E t \in Tasks : CallFlushCache(t) /\ UNCHANGED << tfsVars, vfsVars >>
    \/ \E t \in Tasks : WriteTOCBody(t) /\ UNCHANGED << tfsVars, vfsVars >>
    \/ \E t \in Tasks : WriteTOCPrepare(t) /\ UNCHANGED << tfsVars, vfsVars >>
    \/ \E t \in Tasks : WriteTOCSector(t) /\ UNCHANGED << tfsVars, vfsVars >>
    \/ \E t \in Tasks : WriteTOCCommit(t) /\ UNCHANGED << tfsVars, vfsVars >>
    \/ \E t \in Tasks : WriteTOCThrow(t) /\ UNCHANGED << tfsVars, vfsVars >>
    \/ \E t \in Tasks : CallStartAudioWriteTransfer(t) /\ UNCHANGED << tfsVars, vfsVars >>
    \/ \E t \in Tasks : StartAudioWriteTransferBody(t) /\ UNCHANGED << tfsVars, vfsVars >>
    \/ \E t \in Tasks : StartAudioWriteTransferDone(t) /\ UNCHANGED << tfsVars, vfsVars >>
    \/ \E t \in Tasks : CallStartReadTransfer(t) /\ UNCHANGED << tfsVars, vfsVars >>
    \/ \E t \in Tasks, name \in MkdirNames : Mkdir(t, name) /\ UNCHANGED << tfsVars, vfsVars >>
    \/ \E k \in 1..Len(transfers) : TransferStep(k) /\ UNCHANGED << tfsVars, coordVars, vfsVars >>

SpecCoord == CoordInit /\ [][CoordNext]_vars

\* The coordinator method bodies running past their acquisition: the body
\* a caller is in, the deleteTrack body waiting for its refreshCache, and
\* the startReadTransfer bodies.
BodyPcs ==
    { "getTFS:body", "getDiscState:body", "getTOC:body", "deleteTrack:erase",
      "writeTOC:read", "writeTOC:write", "upload:body" }

Bodies ==
    { << "inner", t >> : t \in { u \in Tasks : tasks[u].pc \in BodyPcs } }
    \cup { << "outer", t >> : t \in { u \in Tasks : tasks[u].outer # "none" } }
    \cup { << "transfer", k >> :
             k \in { j \in 1..Len(transfers) :
                       transfers[j].pc \in { "next", "append", "mark", "return" } } }

\* C1: at every instant at most one coordinator method body is executing
\* past its acquisition of the coordinator mutex.
C1_OneBody == Cardinality(Bodies) <= 1

\* A body runs while another call waits for the mutex.
C1_Witness == Cardinality(Bodies) = 1 /\ mutex.queue # << >>

\* C2: a deleteTrack whose eraseTrack succeeded goes on to refresh the
\* cache and return: it never waits for the coordinator mutex while the
\* mutex is held by that same deleteTrack call.
C2_NoSelfWait ==
    \A t \in Tasks :
        ~ /\ tasks[t].outer = "deleteTrack"
          /\ tasks[t].pc = "getDiscState:wait"
          /\ mutex.holder = Ticket("deleteTrack", t)
          /\ Ticket("getDiscState", t) \in { mutex.queue[i] : i \in 1..Len(mutex.queue) }

\* The titles of the listing refreshCache fetched.
CachedTitles == { cache.disc[i].title : i \in 1..Len(cache.disc) }

\* The smallest id in [0,256) that no listed track carries as h_fs_XX.
SmallestFreeID ==
    CHOOSE i \in 0..256 :
        /\ i = 256 \/ HFSTitle(i) \notin CachedTitles
        /\ \A j \in 0..(i - 1) : HFSTitle(j) \in CachedTitles

FlushTrees ==
    { FSDirectory(<< >>), SmallTree, BigTree(DirsThatFit), BigTree(DirsThatFit + 1),
      BigTree(DirsOverLimit) }
FlushDiscs == { DiscEmpty, DiscFresh, DiscChained, DiscForeign }

FlushInit ==
    /\ dev \in FlushDiscs
    /\ \E root \in FlushTrees :
          cache = [disc |-> listContent(dev), nextFileID |-> NextFileID(listContent(dev)),
                   filesystem |-> root, audioFileCache |-> << >>]
    /\ tasks = [t \in Tasks |-> IdleTask]
    /\ plan = [t \in Tasks |-> IF t = 0 THEN << "flush", "flush" >> ELSE << >>]
    /\ flushes = [t \in Tasks |-> << >>]
    /\ mounted = TRUE
    /\ mutex = FreeMutex
    /\ StreamIdle
    /\ TFSIdle
    /\ VFSIdle

FlushNext ==
    \/ \E t \in Tasks : CallFlushCache(t) /\ UNCHANGED << tfsVars, vfsVars >>
    \/ \E t \in Tasks : WriteTOCBody(t) /\ UNCHANGED << tfsVars, vfsVars >>
    \/ \E t \in Tasks : WriteTOCPrepare(t) /\ UNCHANGED << tfsVars, vfsVars >>
    \/ \E t \in Tasks : WriteTOCSector(t) /\ UNCHANGED << tfsVars, vfsVars >>
    \/ \E t \in Tasks : WriteTOCCommit(t) /\ UNCHANGED << tfsVars, vfsVars >>
    \/ \E t \in Tasks : WriteTOCThrow(t) /\ UNCHANGED << tfsVars, vfsVars >>
    \/ \E t \in Tasks : GetDiscStateBody(t) /\ UNCHANGED << tfsVars, vfsVars >>
    \/ \E t \in Tasks : GetDiscStateDone(t) /\ UNCHANGED << tfsVars, vfsVars >>
    \/ \E t \in Tasks : GetTOCBody(t) /\ UNCHANGED << tfsVars, vfsVars >>
    \/ \E t \in Tasks : GetTOCDone(t) /\ UNCHANGED << tfsVars, vfsVars >>

SpecFlush == FlushInit /\ [][FlushNext]_vars

\* The tree being flushed encodes to more than the TFS limit.
Overflows == Len(TFSBytes(cache.filesystem)) > TFSLimit

\* C9: writeTOC on a tree whose encoding exceeds 2300 bytes fails without
\* any writeUTOCSector and without the commit, leaving the device as it
\* was and the coordinator mutex released.
C9_OverflowWritesNothing ==
    Overflows =>
        /\ ~dev.dirty
        /\ \A t \in Tasks :
              /\ tasks[t].wrote = << >>
              /\ ~tasks[t].committed
              /\ flushes[t] = << >>
              /\ (tasks[t].pc = "idle" /\ tasks[t].failed) => mutex = FreeMutex

\* writeTOC has thrown on an overflowing tree.
C9_Witness ==
    /\ Overflows
    /\ \E t \in Tasks : tasks[t].pc = "idle" /\ tasks[t].failed /\ tasks[t].call = 2

\* C12: in the TOC a completed writeTOC wrote, every fragment in the chain
\* of a track whose title begins with h_fs_ has SP_MODE and STEREO set and
\* WRITABLE cleared, and every other fragment has the mode it had.
C12_ModeStamping ==
    \A t \in Tasks :
        \A k \in 1..Len(flushes[t]) :
            LET before == parseTOC(flushes[t][k].read[1], flushes[t][k].read[2])
                after  == parseTOC(flushes[t][k].utoc[1], flushes[t][k].utoc[2])
            IN  /\ Len(after.trackFragmentList) = Len(before.trackFragmentList)
                /\ \A l \in 1..Len(before.trackFragmentList) :
                      IF l \in HiddenFragments(before)
                      THEN /\ { "SP_MODE", "STEREO" } \subseteq after.trackFragmentList[l].mode
                           /\ "WRITABLE" \notin after.trackFragmentList[l].mode
                      ELSE after.trackFragmentList[l].mode = before.trackFragmentList[l].mode

\* A writeTOC has completed on a TOC with a hidden track of two fragments,
\* the second still LP2 and writable, beside a writable song.
C12_Witness ==
    \E t \in Tasks :
        /\ Len(flushes[t]) >= 1
        /\ LET before == parseTOC(flushes[t][1].read[1], flushes[t][1].read[2])
           IN  \E l \in HiddenFragments(before) :
                  /\ before.trackFragmentList[l].link # 0
                  /\ "WRITABLE" \in before.trackFragmentList[before.trackFragmentList[l].link].mode
                  /\ \E o \in 1..Len(before.trackFragmentList) :
                        o \notin HiddenFragments(before)
                        /\ "WRITABLE" \in before.trackFragmentList[o].mode

\* C10: two back-to-back flushCache calls with nothing in between write
\* the same sectors, and the second leaves the UTOC as the first left it.
C10_IdempotentFlush ==
    \A t \in Tasks :
        Len(flushes[t]) = 2 =>
            /\ flushes[t][1].writes = flushes[t][2].writes
            /\ flushes[t][1].utoc = flushes[t][2].utoc

\* Both flushes are committed, on a disc whose first flush changed the TOC.
C10_Witness ==
    \E t \in Tasks :
        /\ Len(flushes[t]) = 2
        /\ tasks[t].pc = "idle"
        /\ flushes[t][1].utoc[1] # DiscChained.utoc[1]
        /\ flushes[t][1].utoc[1].nTracks = 3

(***************************************************************************)
(* VFS callbacks on a mounted disc: a file backed by a hidden track, a     *)
(* directory holding an empty file that has no track, a song.              *)
(***************************************************************************)
VFSTree ==
    [kind |-> "dir", name |-> << >>,
     files |-> << FSFile(1, << 97 >>, U32(0, 4)),
                  [kind |-> "dir", name |-> << 100 >>,
                   files |-> << FSFile(2, << 102 >>, U32(0, 0)) >>] >>]

DiscVFS == [DiscChained EXCEPT !.utoc[3] = SectorOf(VFSTree)]

\* /a, /d, /d/f and /n (which is not there).
VFSPaths == { << 47, 97 >>, << 47, 100 >>, << 47, 100, 47, 102 >>, << 47, 110 >> }
\* rename takes also /d/n, and two paths a stale directory entry gives:
\* /a/n (under a File) and /x/n (under nothing).
RenameSrcs == { << 47, 97 >>, << 47, 100 >>, << 47, 110 >>, << 47, 97, 47, 110 >> }
RenameDests ==
    { << 47, 100 >>, << 47, 110 >>, << 47, 100, 47, 110 >>, << 47, 120, 47, 110 >> }

OpenFlags == 0..3
Fds == 0..1
\* position, length and buffer of a write: at the start, past the end, and
\* with a buffer longer than length.
WriteArgs == { << 0, 2, << 7, 8 >> >>, << 2, 1, << 9 >> >>, << 1, 1, << 5, 6 >> >> }

\* The kernel looks a path up (getattr) before it calls open on it, and
\* calls create when the lookup found nothing.
Resolves(path) == traverse(cache.filesystem, path) # NoNode

\* The kernel renames neither the root nor a directory into itself.
CanRename(src, dest) == src # dest /\ ~StartsWith(dest, src \o << 47 >>)

\* The state init() leaves: the TFS of sector 2 parsed, the cache refreshed.
VFSInit ==
    /\ dev = DiscVFS
    /\ cache = [disc |-> listContent(dev), nextFileID |-> NextFileID(listContent(dev)),
                filesystem |-> getTFSRoot(dev.utoc[3]).dir,
                audioFileCache |-> << >>]
    /\ tasks = [t \in Tasks |-> IdleTask]
    /\ plan = [t \in Tasks |-> << >>]
    /\ flushes = [t \in Tasks |-> << >>]
    /\ mounted = TRUE
    /\ mutex = FreeMutex
    /\ StreamIdle
    /\ TFSIdle
    /\ VFSIdle

VFSBudget == CallsMade < MaxOps

VFSNext ==
    \/ \E t \in Tasks, path \in VFSPaths, flags \in OpenFlags :
          VFSBudget /\ CanStart(t) /\ Resolves(path) /\ Open(t, path, flags) /\ UNCHANGED tfsVars
    \/ \E t \in Tasks, path \in VFSPaths :
          VFSBudget /\ CanStart(t) /\ ~Resolves(path) /\ Create(t, path) /\ UNCHANGED tfsVars
    \/ \E t \in Tasks, fd \in Fds : VFSBudget /\ Read(t, fd) /\ UNCHANGED tfsVars
    \/ \E t \in Tasks, fd \in Fds, w \in WriteArgs :
          VFSBudget /\ Write(t, fd, w[1], w[2], w[3]) /\ UNCHANGED tfsVars
    \/ \E t \in Tasks, fd \in Fds : VFSBudget /\ Release(t, fd) /\ UNCHANGED tfsVars
    \/ \E t \in Tasks, path \in VFSPaths : VFSBudget /\ Unlink(t, path) /\ UNCHANGED tfsVars
    \/ \E t \in Tasks, src \in RenameSrcs, dest \in RenameDests :
          VFSBudget /\ CanStart(t) /\ CanRename(src, dest) /\ Rename(t, src, dest) /\ UNCHANGED tfsVars
    \/ \E t \in Tasks : Resume(t) /\ UNCHANGED tfsVars
    \/ \E t \in Tasks : Return(t) /\ UNCHANGED tfsVars
    \/ \E t \in Tasks : DeleteTrackBody(t) /\ UNCHANGED << tfsVars, vfsVars >>
    \/ \E t \in Tasks : DeleteTrackErased(t) /\ UNCHANGED << tfsVars, vfsVars >>
    \/ \E t \in Tasks : StartAudioWriteTransferBody(t) /\ UNCHANGED << tfsVars, vfsVars >>
    \/ \E t \in Tasks : StartAudioWriteTransferDone(t) /\ UNCHANGED << tfsVars, vfsVars >>
    \/ \E t \in Tasks : WriteTOCBody(t) /\ UNCHANGED << tfsVars, vfsVars >>
    \/ \E t \in Tasks : WriteTOCPrepare(t) /\ UNCHANGED << tfsVars, vfsVars >>
    \/ \E t \in Tasks : WriteTOCSector(t) /\ UNCHANGED << tfsVars, vfsVars >>
    \/ \E t \in Tasks : WriteTOCCommit(t) /\ UNCHANGED << tfsVars, vfsVars >>
    \/ \E t \in Tasks : GetDiscStateBody(t) /\ UNCHANGED << tfsVars, vfsVars >>
    \/ \E t \in Tasks : GetDiscStateDone(t) /\ UNCHANGED << tfsVars, vfsVars >>
    \/ \E t \in Tasks : GetTOCBody(t) /\ UNCHANGED << tfsVars, vfsVars >>
    \/ \E t \in Tasks : GetTOCDone(t) /\ UNCHANGED << tfsVars, vfsVars >>

SpecVFS == VFSInit /\ [][VFSNext]_vars

\* Caller t's callback `op` starts in this step.
Starts(t, op) == calls'[t].seq = calls[t].seq + 1 /\ calls'[t].op = op

\* No coordinator call is made or moved and the device is left alone.
NoDeviceOperation == UNCHANGED << tasks, plan, mutex, dev, flushes >>

\* The steps of release(fd) on a TFS write handle, in their order.
ReleaseSteps(t) ==
    LET fd == calls'[t].args[1]
        h == openFiles[fd + 1]
    IN  /\ (Starts(t, "release") /\ isValidHandle(fd) /\ h.kind = "write") =>
              /\ cachedFiles'[h.oid].complete
              /\ IF cachedFiles[h.oid].contents = << >>
                 THEN /\ openFiles'[fd + 1] = NoNode
                      /\ calls'[t].reply = << Reply("OK", 0) >>
                      /\ calls'[t].pc = "idle"
                      /\ NoDeviceOperation
                      /\ UNCHANGED cache
                 ELSE /\ calls'[t].pc = "release:upload"
                      /\ calls'[t].reply = << >>
                      /\ tasks'[t].pc = "upload:wait"
                      /\ tasks'[t].index = h.trackID
                      /\ UNCHANGED << openFiles, dev, cache >>
        \* the upload is that of h_fs_XX, XX the id the release passed
        /\ (calls[t].pc = "release:upload" /\ tasks[t].pc = "upload:body"
              /\ tasks'[t].pc # "upload:body") =>
              /\ dev'.utoc[2] = Append(dev.utoc[2], HFSTitle(tasks[t].index))
              /\ UNCHANGED << openFiles, calls >>
        \* the flush is called once the upload has returned
        /\ (calls[t].pc = "release:upload" /\ calls'[t].pc # "release:upload") =>
              /\ tasks[t].pc = "idle" /\ CurOp(t) = "upload" /\ ~tasks[t].failed
              /\ calls'[t].pc = "release:flush"
              /\ tasks'[t].pc = "writeTOC:wait"
              /\ UNCHANGED << openFiles, dev, cache >>
        \* the fd is invalidated once writeTOC and refreshCache are done
        /\ (calls[t].pc = "release:flush" /\ calls'[t].pc # "release:flush") =>
              /\ tasks[t].pc = "idle" /\ CurOp(t) = "flush" /\ tasks[t].committed
              /\ \E i \in 1..Len(cache.disc) : cache.disc[i].title = HFSTitle(tasks[t].index)
              /\ openFiles'[calls[t].args[1] + 1] = NoNode
              /\ calls'[t].reply = << Reply("OK", 0) >>
              /\ calls'[t].pc = "idle"
              /\ NoDeviceOperation
        \* and not before
        /\ (calls[t].op = "release" /\ calls[t].pc \in { "release:upload", "release:flush" }
              /\ calls'[t].pc = calls[t].pc) =>
              calls'[t] = calls[t]

\* C13: release(fd) on a TFS write handle marks the buffer complete; with a
\* non-empty buffer it then uploads h_fs_XX for the handle's trackID, then
\* flushes (writeTOC, refreshCache), and only then invalidates the fd; with
\* an empty buffer it invalidates the fd with no device operation.
C13_ReleaseOrder == [][\A t \in Tasks : ReleaseSteps(t)]_vars

\* A release of a handle with bytes has run to its reply: the track is on
\* the disc and the fd is free.
C13_Witness ==
    \E t \in Tasks :
        /\ calls[t].op = "release"
        /\ calls[t].reply = << Reply("OK", 0) >>
        /\ tasks[t].call > 0
        /\ CurOp(t) = "flush"
        /\ tasks[t].committed
        /\ openFiles[calls[t].args[1] + 1] = NoNode
        /\ HFSTitle(tasks[t].index) \in { cache.disc[i].title : i \in 1..Len(cache.disc) }

\* C14: open with (flags & 3) outside {O_RDONLY, O_WRONLY} replies EACCES
\* and does nothing else: no handle, the same tree, no device operation.
C14_BadFlagsRejected ==
    [][\A t \in Tasks :
          (Starts(t, "open") /\ (calls'[t].args[2] % 4) \notin { 0, 1 }) =>
              /\ calls'[t].reply = << Reply("EACCES", 0) >>
              /\ calls'[t].pc = "idle"
              /\ UNCHANGED << openFiles, cachedFiles, cache >>
              /\ NoDeviceOperation]_vars

\* The path and its parent as the caller means them: by the last segment.
TrueParent(root, path) == traverse(root, ParentName(path, getFileName(path)))
ChildAt(root, path) ==
    IF IsDir(TrueParent(root, path))
    THEN getFile(TrueParent(root, path), getFileName(path))
    ELSE NoNode

C16_UnlinkReplies ==
    [][\A t \in Tasks :
          LET path == calls'[t].args[1]
              node == ChildAt(cache.filesystem, path)
              backed == IsFile(node) /\ resolveIDToIndex(cache.disc, node.trackID) # -1
          IN  (Starts(t, "unlink") /\ (IsFile(node) \/ (IsDir(node) /\ node.files = << >>))) =>
                  /\ ChildAt(cache'.filesystem, path) = NoNode
                  /\ IF backed
                     THEN /\ tasks'[t].pc = "deleteTrack:wait"
                          /\ tasks'[t].index = resolveIDToIndex(cache.disc, node.trackID)
                     ELSE /\ calls'[t].reply = << Reply("OK", 0) >>
                          /\ NoDeviceOperation]_vars

HandleOpens ==
    { << << 47, 97 >>, 0 >>, << << 47, 100, 47, 102 >>, 0 >>, << << 47, 100, 47, 102 >>, 1 >> }
HandleCreates == { << 47, 110 >> }
HandleFds == 0..2

HandleBudget == CallsMade < MaxHandleOps

HandlesNext ==
    \/ \E t \in Tasks, o \in HandleOpens :
          HandleBudget /\ CanStart(t) /\ Resolves(o[1]) /\ Open(t, o[1], o[2]) /\ UNCHANGED tfsVars
    \/ \E t \in Tasks, path \in HandleCreates :
          HandleBudget /\ CanStart(t) /\ ~Resolves(path) /\ Create(t, path) /\ UNCHANGED tfsVars
    \/ \E t \in Tasks, fd \in HandleFds : HandleBudget /\ Release(t, fd) /\ UNCHANGED tfsVars
    \/ \E t \in Tasks : Return(t) /\ UNCHANGED tfsVars

SpecHandles == VFSInit /\ [][HandlesNext]_vars

\* The indexes of the null slots of the open-files vector.
FreeSlots(table) == { i \in 0..(Len(table) - 1) : table[i + 1] = NoNode }

\* The fds of the handles that are live.
LiveFds(table) == { i \in 0..(Len(table) - 1) : table[i + 1] # NoNode }

\* An open or a create of caller t has handed out a handle in this step.
Allocates(t) ==
    /\ Starts(t, "open") \/ Starts(t, "create")
    /\ calls'[t].reply # << >>
    /\ calls'[t].reply[Len(calls'[t].reply)].code = "OK"

\* C18: a handle is allocated at the lowest index whose slot is null, and at
\* the vector's length only when no slot is null; the fd handed out is that
\* of no handle that was live, and every other slot is left as it was.
C18_LowestFreeSlot ==
    [][\A t \in Tasks :
          Allocates(t) =>
              LET fd == calls'[t].reply[Len(calls'[t].reply)].val
                  free == FreeSlots(openFiles)
              IN  /\ IF free = {}
                     THEN fd = Len(openFiles) /\ Len(openFiles') = Len(openFiles) + 1
                     ELSE /\ fd \in free
                          /\ \A i \in free : fd <= i
                          /\ Len(openFiles') = Len(openFiles)
                  /\ fd \notin LiveFds(openFiles)
                  /\ LiveFds(openFiles') = LiveFds(openFiles) \cup { fd }
                  /\ openFiles'[fd + 1].path = calls'[t].args[1]
                  /\ \A i \in LiveFds(openFiles) : openFiles'[i + 1] = openFiles[i + 1]]_vars

\* A handle was allocated while two slots were free (the step changed slot 0
\* only): it took the lower one, and the higher one is still free.
C18_Witness ==
    \E t \in Tasks :
        /\ calls[t].op \in { "open", "create" }
        /\ calls[t].reply # << >>
        /\ calls[t].reply[1].code = "OK"
        /\ calls[t].reply[1].val = 0
        /\ Len(openFiles) = 2
        /\ openFiles[1] # NoNode
        /\ openFiles[2] = NoNode

\* Caller t's callback has called cb in this step.
Replies(t) == Len(calls'[t].reply) > Len(calls[t].reply)

\* C19: read, write and release on an fd beyond the table, or on a slot that
\* was invalidated, reply EACCES and change neither the handle table nor
\* the tree; a release that has replied 0 leaves the slot of its fd null, and
\* a null slot is filled again by an allocation only.
C19_InvalidFd ==
    [][\A t \in Tasks :
          LET fd == calls'[t].args[1]
          IN  /\ ( /\ Starts(t, "read") \/ Starts(t, "write") \/ Starts(t, "release")
                   /\ fd >= Len(openFiles) \/ openFiles[fd + 1] = NoNode ) =>
                      /\ calls'[t].reply = << Reply("EACCES", 0) >>
                      /\ calls'[t].pc = "idle"
                      /\ UNCHANGED << openFiles, cachedFiles, cache >>
                      /\ NoDeviceOperation
              /\ ( /\ calls'[t].op = "release"
                   /\ Replies(t)
                   /\ calls'[t].reply = << Reply("OK", 0) >> ) =>
                      /\ fd < Len(openFiles')
                      /\ openFiles'[fd + 1] = NoNode
              /\ \A i \in FreeSlots(openFiles) :
                    openFiles'[i + 1] # NoNode => \E u \in Tasks : Allocates(u)]_vars

\* An fd was opened and released, and a later read, write or release on it
\* was refused: its slot is within the table and null.
C19_Witness ==
    \E t \in Tasks :
        /\ calls[t].op \in { "read", "write", "release" }
        /\ calls[t].reply = << Reply("EACCES", 0) >>
        /\ calls[t].args[1] < Len(openFiles)
        /\ openFiles[calls[t].args[1] + 1] = NoNode

\* C20: write(fd, offset, length, data) on a write handle leaves the buffer
\* max(oldLength, offset + length) long, with data[0..length) at offset,
\* zeros between the old end and offset, every other byte as it was;
\* byteLength is the buffer's length and the reply is length, also when data
\* is longer than length.
C20_WriteExtends ==
    [][\A t \in Tasks :
          LET fd == calls'[t].args[1]
              offset == calls'[t].args[2]
              length == calls'[t].args[3]
              data == calls'[t].args[4]
              oid == openFiles[fd + 1].oid
              old == cachedFiles[oid].contents
              new == cachedFiles'[oid].contents
              end == IF Len(old) > offset + length THEN Len(old) ELSE offset + length
          IN  ( /\ Starts(t, "write")
                /\ fd < Len(openFiles)
                /\ openFiles[fd + 1].kind = "write" ) =>
                  /\ Len(new) = end
                  /\ \A i \in 1..Len(new) :
                        new[i] = IF i > offset /\ i <= offset + length THEN data[i - offset]
                                 ELSE IF i <= Len(old) THEN old[i]
                                 ELSE 0
                  /\ \A n \in { ChildAt(cache'.filesystem, openFiles[fd + 1].path) } :
                        (IsFile(n) /\ "oid" \in DOMAIN n /\ n.oid = oid) =>
                            n.byteLength = U32(0, Len(new))
                  /\ calls'[t].reply = << Reply("OK", length) >>]_vars

\* A step of a callback that is under way: a coordinator method it awaits
\* moves, or the callback goes on after it.
CallbackStep ==
    \E t \in Tasks :
        \/ Resume(t)
        \/ DeleteTrackBody(t) \/ DeleteTrackErased(t)
        \/ StartAudioWriteTransferBody(t) \/ StartAudioWriteTransferDone(t)
        \/ WriteTOCBody(t) \/ WriteTOCPrepare(t) \/ WriteTOCSector(t) \/ WriteTOCCommit(t)
        \/ GetDiscStateBody(t) \/ GetDiscStateDone(t)
        \/ GetTOCBody(t) \/ GetTOCDone(t)

\* The titles of the tracks on the device.
DeviceTitles == { dev.utoc[2][i] : i \in 1..Len(dev.utoc[2]) }

\* What a write-open of caller t does, step by step.
WriteOpenSteps(t) ==
    LET path == calls'[t].args[1]
        existing == traverse(cache.filesystem, path)
    IN  \* a File with bytes and a track: the track's erase is called for,
        \* and the node is not yet replaced
        /\ ( /\ Starts(t, "open") /\ calls'[t].args[2] % 4 = 1
             /\ IsFile(existing) /\ existing.byteLength # U32(0, 0)
             /\ resolveIDToIndex(cache.disc, existing.trackID) # -1 ) =>
                /\ tasks'[t].pc = "deleteTrack:wait"
                /\ tasks'[t].index = resolveIDToIndex(cache.disc, existing.trackID)
                /\ calls'[t].reply = << >>
                /\ UNCHANGED << cache, openFiles, cachedFiles >>
        \* the new node is made once the track is erased, with the old id
        /\ (calls[t].pc = "open:delete" /\ calls'[t].pc # "open:delete") =>
                /\ HFSTitle(calls[t].id) \notin DeviceTitles
                /\ calls'[t].reply = << Reply("OK", calls'[t].reply[1].val) >>
                /\ IsFile(ChildAt(cache'.filesystem, calls[t].args[1]))
                /\ ChildAt(cache'.filesystem, calls[t].args[1]).trackID = calls[t].id
        \* a Directory: EPERM, and nothing changes
        /\ ( /\ Starts(t, "open") /\ calls'[t].args[2] % 4 = 1
             /\ IsDir(existing) ) =>
                /\ calls'[t].reply = << Reply("EPERM", 0) >>
                /\ UNCHANGED << cache, openFiles, cachedFiles >>
                /\ NoDeviceOperation

\* C21: a write-open on a File with bytes erases the File's track and then
\* makes the new node, which carries the old trackID: the erase is called
\* for first, the open is never left with nothing to run before the node is
\* made, and the node has the old id.  A write-open on a Directory replies
\* EPERM and leaves the tree as it is.
C21_WriteOpenTruncates ==
    /\ [][\A t \in Tasks : WriteOpenSteps(t)]_vars
    /\ [](\A t \in Tasks : calls[t].pc = "open:delete" => ENABLED CallbackStep)

(***************************************************************************)
(* The /$audio directory: the names getValidNameTracks gives the tracks,    *)
(* and the callbacks on paths under /$audio/.  Titles and these paths are   *)
(* sequences of characters.                                                 *)
(***************************************************************************)
NoTitle == << "N", "o", " ", "T", "i", "t", "l", "e" >>
AudioDir == << "/", "$", "a", "u", "d", "i", "o" >>
DecDigits == << "0", "1", "2", "3", "4", "5", "6", "7", "8", "9" >>

RECURSIVE ToDec(_)
\* `${n}`
ToDec(n) == IF n < 10 THEN << DecDigits[n + 1] >> ELSE ToDec(n \div 10) \o << DecDigits[(n % 10) + 1] >>

\* A replacement of every occurrence.
ReplaceEvery(str, ch, by) == [i \in 1..Len(str) |-> IF str[i] = ch THEN by ELSE str[i]]

\* String.prototype.replace(ch, by) with a string pattern: the first
\* occurrence only.
Replace(str, ch, by) ==
    [i \in 1..Len(str) |-> IF i = IndexOf(str, ch) + 1 THEN by ELSE str[i]]

\* The name of one track: `${index + 1}. ${title || "No Title"}.${ext}`.
TrackName(n) ==
    ToDec(n.index + 1) \o << ".", " " >>
       \o Replace(IF n.title = << >> THEN NoTitle ELSE n.title, "/", "_")
       \o << "." >>
       \o (IF n.encoding = "sp" THEN << "a", "e", "a" >> ELSE << "w", "a", "v" >>)

\* getValidNameTracks(disc)
getValidNameTracks(disc) ==
    LET valid == SelectSeq(disc, LAMBDA n : ~StartsWith(n.title, HFSPrefix))
    IN  [i \in 1..Len(valid) |-> [index |-> valid[i].index, name |-> TrackName(valid[i])]]

\* allTracks.find(e => e.name === fileName)
FindTrack(allTracks, fileName) ==
    IF \E i \in 1..Len(allTracks) : allTracks[i].name = fileName
    THEN allTracks[CHOOSE i \in 1..Len(allTracks) :
                      /\ allTracks[i].name = fileName
                      /\ \A j \in 1..(i - 1) : allTracks[j].name # fileName]
    ELSE NoNode

\* getFileName on a path of characters: what follows the last "/".
audioFileName(path) ==
    LET slashes == { i \in 1..Len(path) : path[i] = "/" }
        last == IF slashes = {} THEN 0 ELSE CHOOSE i \in slashes : \A j \in slashes : j <= i
    IN  SubSeq(path, last + 1, Len(path))

\* array[index] = value on a JavaScript array: holes below index stay empty.
ArraySet(array, index, value) ==
    [k \in 1..(IF Len(array) > index THEN Len(array) ELSE index + 1) |->
        IF k = index + 1 THEN value
        ELSE IF k <= Len(array) THEN array[k]
        ELSE NoNode]

\* array[index], undefined read as null.
ArrayGet(array, index) == IF index < Len(array) THEN array[index + 1] ELSE NoNode

\* Object.keys(dir.files)
Keys(dir) == [i \in 1..Len(dir.files) |-> dir.files[i].name]

\* callbacks.readdir, for "/", "/$audio" and the paths of the TFS tree.
Readdir(t, path) ==
    /\ CanStart(t)
    /\ LET c == Started(t, "readdir", << path >>)
           file == traverse(cache.filesystem, path)
       IN  calls' = [calls EXCEPT ![t] =
              IF path = << "/" >>
              THEN Replied(c, "OK", << "$audio", "$system" >> \o Keys(cache.filesystem))
              ELSE IF path = AudioDir
              THEN Replied(c, "OK", [i \in 1..Len(getValidNameTracks(cache.disc)) |->
                                        getValidNameTracks(cache.disc)[i].name])
              ELSE IF IsDir(file) THEN Replied(c, "OK", Keys(file))
              ELSE Replied(c, "OK", << >>)]
    /\ NoDeviceCall
    /\ UNCHANGED << dev, cache, flushes, mounted, streamVars, openFiles, cachedFiles >>

\* new FSFile(thisTrack.index, fileName, -1, transferManager, { audioTrack: true })
MockFile(index, fileName) ==
    [kind |-> "file", trackID |-> index, name |-> fileName, byteLength |-> -1,
     audioTrack |-> TRUE]

\* fsFileToReadHandle(file) for a file of audioFileCache.
AudioReadHandle(path, file) ==
    [kind |-> "read", oid |-> 0, trackID |-> file.trackID, path |-> path, audioTrack |-> TRUE]

\* callbacks.open, for a path under /$audio/.  cb(EACCES, 0) for the flags
\* is not followed by a return.
OpenAudio(t, path, flags) ==
    /\ CanStart(t)
    /\ LET masked == flags % 4
           c == [Started(t, "open", << path, flags >>) EXCEPT
                    !.reply = IF masked # 0 /\ masked # 1
                              THEN << Reply("EACCES", 0) >> ELSE << >>]
           fileName == audioFileName(path)
           allTracks == getValidNameTracks(cache.disc)
           thisTrack == FindTrack(allTracks, fileName)
       IN  IF masked # 0
           THEN /\ calls' = [calls EXCEPT ![t] = Replied(c, "EACCES", 0)]
                /\ UNCHANGED << cache, openFiles >>
           ELSE IF thisTrack = NoNode
           THEN /\ calls' = [calls EXCEPT ![t] = Replied(c, "ENOENT", 0)]
                /\ UNCHANGED << cache, openFiles >>
           ELSE IF ArrayGet(cache.audioFileCache, thisTrack.index) # NoNode
           THEN LET added == addHandle(openFiles,
                                AudioReadHandle(path, ArrayGet(cache.audioFileCache, thisTrack.index)))
                IN  /\ openFiles' = added.table
                    /\ calls' = [calls EXCEPT ![t] = Replied(c, "OK", added.fd)]
                    /\ UNCHANGED cache
           ELSE LET mockFile == MockFile(thisTrack.index, fileName)
                    added == addHandle(openFiles, AudioReadHandle(path, mockFile))
                IN  /\ cache' = [cache EXCEPT !.audioFileCache =
                                    ArraySet(@, thisTrack.index, mockFile)]
                    /\ openFiles' = added.table
                    /\ calls' = [calls EXCEPT ![t] = Replied(c, "OK", added.fd)]
    /\ NoDeviceCall
    /\ UNCHANGED << dev, flushes, mounted, streamVars, cachedFiles >>

\* callbacks.unlink, for a path under /$audio/.
UnlinkAudio(t, path) ==
    /\ CanStart(t)
    /\ LET c == Started(t, "unlink", << path >>)
           fileName == audioFileName(path)
           allTracks == getValidNameTracks(cache.disc)
           thisTrack == FindTrack(allTracks, fileName)
       IN  IF thisTrack = NoNode
           THEN /\ calls' = [calls EXCEPT ![t] = Replied(c, "ENOENT", 0)]
                /\ NoDeviceCall
           ELSE /\ calls' = [calls EXCEPT ![t] = [c EXCEPT !.pc = "unlink:delete"]]
                /\ Await(t, "unlink", "deleteTrack:wait", thisTrack.index, "deleteTrack")
    /\ UNCHANGED << dev, cache, flushes, mounted, streamVars, openFiles, cachedFiles >>

(***************************************************************************)
(* Callbacks on /$audio on mounted discs whose three tracks carry titles    *)
(* with and without "/", no title, and h_fs_ titles.                        *)
(***************************************************************************)
AudioTitles ==
    [1..3 -> { << >>, << "S" >>, << "a", "/", "b" >>, << "a", "/", "b", "/", "c" >>,
               HFSTitle(1) }]

AudioDiscs ==
    { [DiscVFS EXCEPT !.utoc[2] = titles] :
         titles \in { f \in AudioTitles : f[1] \in { HFSTitle(1), << "a", "/", "b" >> }
                                           /\ f[3] \in { << >>, << "S" >>, HFSTitle(1) }
                                           /\ f[2] # f[3] /\ f[1] # f[3] /\ f[1] # f[2] } }

\* The kernel looks a name up before it opens or unlinks it: the names of
\* the listing that hold no "/".
AudioPaths ==
    { AudioDir \o << "/" >> \o getValidNameTracks(cache.disc)[i].name :
         i \in { j \in 1..Len(getValidNameTracks(cache.disc)) :
                    IndexOf(getValidNameTracks(cache.disc)[j].name, "/") = -1 } }

AudioInit ==
    /\ dev \in AudioDiscs
    /\ cache = [disc |-> listContent(dev), nextFileID |-> NextFileID(listContent(dev)),
                filesystem |-> getTFSRoot(dev.utoc[3]).dir,
                audioFileCache |-> << >>]
    /\ tasks = [t \in Tasks |-> IdleTask]
    /\ plan = [t \in Tasks |-> << >>]
    /\ flushes = [t \in Tasks |-> << >>]
    /\ mounted = TRUE
    /\ mutex = FreeMutex
    /\ StreamIdle
    /\ TFSIdle
    /\ VFSIdle

\* The callbacks on /$audio, unlink of /a, and the steps of deleteTrack up to
\* its wait for getDiscState (which is never granted, so that no callback
\* goes on after it).
AudioNext ==
    \/ \E t \in Tasks, path \in { << "/" >>, AudioDir } :
          VFSBudget /\ Readdir(t, path) /\ UNCHANGED tfsVars
    \/ \E t \in Tasks, flags \in OpenFlags :
          VFSBudget /\ CanStart(t)
             /\ \E path \in AudioPaths : OpenAudio(t, path, flags) /\ UNCHANGED tfsVars
    \/ \E t \in Tasks :
          VFSBudget /\ CanStart(t)
             /\ \E path \in AudioPaths : UnlinkAudio(t, path) /\ UNCHANGED tfsVars
    \/ \E t \in Tasks : VFSBudget /\ Unlink(t, << 47, 97 >>) /\ UNCHANGED tfsVars
    \/ \E t \in Tasks : Return(t) /\ UNCHANGED tfsVars
    \/ \E t \in Tasks : DeleteTrackBody(t) /\ UNCHANGED << tfsVars, vfsVars >>
    \/ \E t \in Tasks : DeleteTrackErased(t) /\ UNCHANGED << tfsVars, vfsVars >>

SpecAudio == AudioInit /\ [][AudioNext]_vars

\* The name the listing is to give a track: every "/" of the title replaced.
ListedName(n) ==
    ToDec(n.index + 1) \o << ".", " " >>
       \o ReplaceEvery(IF n.title = << >> THEN NoTitle ELSE n.title, "/", "_")
       \o << "." >>
       \o (IF n.encoding = "sp" THEN << "a", "e", "a" >> ELSE << "w", "a", "v" >>)

\* C22: readdir("/$audio") lists one entry for each track whose title does
\* not start with h_fs_ and none for the others; the entry of a track is
\* "{index+1}. {title or No Title}.{ext}" with every "/" of the title
\* replaced by "_", ext being aea for SP and wav otherwise, so that no name
\* holds a "/".
C22_AudioListing ==
    [][\A t \in Tasks :
          (Starts(t, "readdir") /\ calls'[t].args[1] = AudioDir) =>
              LET list == calls'[t].reply[1].val
                  listed == { i \in 1..Len(cache.disc) : ~StartsWith(cache.disc[i].title, HFSPrefix) }
              IN  /\ Len(calls'[t].reply) = 1
                  /\ calls'[t].reply[1].code = "OK"
                  /\ Len(list) = Cardinality(listed)
                  /\ { list[k] : k \in 1..Len(list) } = { ListedName(cache.disc[i]) : i \in listed }
                  /\ \A k \in 1..Len(list) : IndexOf(list[k], "/") = -1]_vars

\* The buffer at index i of audioFileCache belongs to the track the device
\* holds at index i now: if the device lists a track at index i, it lists it
\* under the name the buffer was made for.
BufferBound(i) ==
    LET file == ArrayGet(cache.audioFileCache, i)
        now == getValidNameTracks(listContent(dev))
    IN  \A k \in 1..Len(now) : now[k].index = i => now[k].name = file.name

\* C28: whenever audioFileCache[i] holds a buffer, the buffer is bound to the
\* track the disc holds at index i at that moment, also after a track was
\* erased and the tracks behind it changed index; a read-open then never
\* hands out the buffer of another track.
C28_AudioCacheBound ==
    \A i \in 0..(Len(cache.audioFileCache) - 1) :
        ArrayGet(cache.audioFileCache, i) # NoNode => BufferBound(i)

(***************************************************************************)
(* A file is created, written and released on a disc whose tree is large:  *)
(* either one that still fits, or one that mkdir (which flushes nothing)    *)
(* has grown past the TFS limit.                                            *)
(***************************************************************************)
DiscLarge == [DiscFull EXCEPT !.utoc[3] = SectorOf(BigTree(DirsThatFit - 1))]

OverflowInit ==
    /\ dev = DiscLarge
    /\ \E root \in { getTFSRoot(dev.utoc[3]).dir, BigTree(DirsOverLimit) } :
          cache = [disc |-> listContent(dev), nextFileID |-> NextFileID(listContent(dev)),
                   filesystem |-> root, audioFileCache |-> << >>]
    /\ tasks = [t \in Tasks |-> IdleTask]
    /\ plan = [t \in Tasks |-> << >>]
    /\ flushes = [t \in Tasks |-> << >>]
    /\ mounted = TRUE
    /\ mutex = FreeMutex
    /\ StreamIdle
    /\ TFSIdle
    /\ VFSIdle

OverflowNext ==
    \/ \E t \in Tasks, path \in { << 47, 110 >>, << 47, 111 >> } :
          VFSBudget /\ CanStart(t) /\ ~Resolves(path) /\ Create(t, path) /\ UNCHANGED tfsVars
    \/ \E t \in Tasks, fd \in Fds, w \in WriteArgs :
          VFSBudget /\ Write(t, fd, w[1], w[2], w[3]) /\ UNCHANGED tfsVars
    \/ \E t \in Tasks, fd \in Fds : VFSBudget /\ Release(t, fd) /\ UNCHANGED tfsVars
    \/ \E t \in Tasks : Resume(t) /\ UNCHANGED tfsVars
    \/ \E t \in Tasks : Return(t) /\ UNCHANGED tfsVars
    \/ \E t \in Tasks : StartAudioWriteTransferBody(t) /\ UNCHANGED << tfsVars, vfsVars >>
    \/ \E t \in Tasks : StartAudioWriteTransferDone(t) /\ UNCHANGED << tfsVars, vfsVars >>
    \/ \E t \in Tasks : WriteTOCBody(t) /\ UNCHANGED << tfsVars, vfsVars >>
    \/ \E t \in Tasks : WriteTOCPrepare(t) /\ UNCHANGED << tfsVars, vfsVars >>
    \/ \E t \in Tasks : WriteTOCSector(t) /\ UNCHANGED << tfsVars, vfsVars >>
    \/ \E t \in Tasks : WriteTOCCommit(t) /\ UNCHANGED << tfsVars, vfsVars >>
    \/ \E t \in Tasks : WriteTOCThrow(t) /\ UNCHANGED << tfsVars, vfsVars >>
    \/ \E t \in Tasks : GetDiscStateBody(t) /\ UNCHANGED << tfsVars, vfsVars >>
    \/ \E t \in Tasks : GetDiscStateDone(t) /\ UNCHANGED << tfsVars, vfsVars >>
    \/ \E t \in Tasks : GetTOCBody(t) /\ UNCHANGED << tfsVars, vfsVars >>
    \/ \E t \in Tasks : GetTOCDone(t) /\ UNCHANGED << tfsVars, vfsVars >>

SpecOverflow == OverflowInit /\ [][OverflowNext]_vars

\* The release of caller t has been aborted by the overflow of its flush.
ReleaseOverflowed(t) ==
    /\ calls[t].op = "release"
    /\ calls[t].pc = "thrown"
    /\ tasks[t].call > 0
    /\ CurOp(t) = "flush"
    /\ tasks[t].failed
    /\ Overflows

\* C23: a release of a write handle with bytes whose flush meets a tree
\* encoding over 2300 bytes aborts having written nothing to the device: no
\* track was uploaded, no UTOC sector written, no TOC committed.
C23_OverflowAbortsRelease ==
    \A t \in Tasks :
        ReleaseOverflowed(t) =>
            /\ HFSTitle(openFiles[calls[t].args[1] + 1].trackID) \notin DeviceTitles
            /\ dev.utoc[2] = DiscLarge.utoc[2]
            /\ tasks[t].wrote = << >>
            /\ ~tasks[t].committed
            /\ ~dev.dirty

(***************************************************************************)
(* parseTFSStructure on what sector 2 may hold after OFFSET: any bytes, not *)
(* only the encodings createTFSStructure makes.                             *)
(***************************************************************************)
\* Bytes after MAGIC and the root's F0, at most.
MaxRawLen == 4

\* 0 (end of text, file type 0), 3 (file type 3), 5 (no record type), "a",
\* F0 and FF.
RawBytes == { 0, 3, 5, 97, 240, 255 }

RawInputs ==
    { MAGIC \o << 240 >> \o b : b \in UNION { [1..n -> RawBytes] : n \in 0..MaxRawLen } }
    \cup { << >>, << 240 >>, MAGIC, MAGIC \o << 255 >> }

RawInit ==
    /\ tfsTree = FSDirectory(<< >>)
    /\ tfsEnc \in { [ok |-> TRUE, bytes |-> raw] : raw \in RawInputs }
    /\ tfsParsed = [st |-> "none", dir |-> FSDirectory(<< >>), rest |-> << >>]
    /\ tfsPhase = "encoded"
    /\ StreamIdle
    /\ mutex = FreeMutex
    /\ CoordIdle

RawNext == Parse

SpecParse == RawInit /\ [][RawNext]_vars

\* The record types a directory body may hold.
RecordLeads == { 0, 1, 2, 3, 240, 255 }

\* C24: a leading byte of a directory body that is not F0, FF or 0..3 makes
\* the parse fail with a format error.  Here the byte is the first of the
\* root's body: the input is MAGIC, F0, the empty name, that byte.
C24_BadLeadIsError ==
    LET raw == tfsEnc.bytes
        n == Len(MAGIC)
    IN  ( /\ tfsPhase = "parsed"
          /\ Len(raw) >= n + 3
          /\ SubSeq(raw, 1, n + 2) = MAGIC \o << 240, 0 >>
          /\ raw[n + 3] \notin RecordLeads ) =>
            tfsParsed.st = "error"

\* C29: parseTFSStructure ends on every input, with a tree or an error; an
\* input that begins MAGIC, F0 and ends before the closing FF does not make
\* it loop forever.
C29_ParseEnds == tfsPhase = "parsed" => tfsParsed.st \in { "ok", "error" }

RECURSIVE FileIDs(_)
\* The trackIDs of the File nodes under a node, one per node.
FileIDs(n) ==
    IF IsFile(n) THEN << n.trackID >>
    ELSE Flatten([i \in 1..Len(n.files) |-> FileIDs(n.files[i])])

\* C25: no two File nodes of the tree have the same trackID, whatever
\* creates, write-opens, writes, releases, unlinks and renames have run.
C25_DistinctTrackIDs ==
    LET ids == FileIDs(cache.filesystem)
    IN  \A i, j \in 1..Len(ids) : i # j => ids[i] # ids[j]

(***************************************************************************)
(* Creates and writes on a disc whose listing carries the 256 hidden titles *)
(* h_fs_00 .. h_fs_ff: refreshCache finds no free id below 0x100 and logs   *)
(* "Too many files".                                                        *)
(***************************************************************************)
\* The ids a trackID byte can hold.
IDCount == 256

DiscAllIDs ==
    [utoc |-> << [nTracks |-> IDCount, trackMap |-> [i \in 1..IDCount |-> i],
                  trackFragmentList |-> [i \in 1..IDCount |-> Frag({ "STEREO", "WRITABLE" }, 0)]],
                 [i \in 1..IDCount |-> HFSTitle(i - 1)],
                 SectorOf(FSDirectory(<< >>)) >>,
     dirty |-> FALSE]

FullInit ==
    /\ dev = DiscAllIDs
    /\ cache = [disc |-> listContent(dev), nextFileID |-> NextFileID(listContent(dev)),
                filesystem |-> getTFSRoot(dev.utoc[3]).dir,
                audioFileCache |-> << >>]
    /\ tasks = [t \in Tasks |-> IdleTask]
    /\ plan = [t \in Tasks |-> << >>]
    /\ flushes = [t \in Tasks |-> << >>]
    /\ mounted = TRUE
    /\ mutex = FreeMutex
    /\ StreamIdle
    /\ TFSIdle
    /\ VFSIdle

FullNext ==
    \/ \E t \in Tasks, path \in { << 47, 110 >>, << 47, 111 >> } :
          VFSBudget /\ CanStart(t) /\ ~Resolves(path) /\ Create(t, path) /\ UNCHANGED tfsVars
    \/ \E t \in Tasks, path \in { << 47, 110 >>, << 47, 111 >> }, flags \in { 0, 1 } :
          VFSBudget /\ CanStart(t) /\ Resolves(path) /\ Open(t, path, flags) /\ UNCHANGED tfsVars
    \/ \E t \in Tasks, fd \in Fds, w \in WriteArgs :
          VFSBudget /\ Write(t, fd, w[1], w[2], w[3]) /\ UNCHANGED tfsVars
    \/ \E t \in Tasks : Return(t) /\ UNCHANGED tfsVars

SpecFullDisc == FullInit /\ [][FullNext]_vars

\* C26: every File node that create or a write-open has made carries a
\* trackID in 0..255; with all 256 hidden titles taken no node is made with
\* an id outside that range.
C26_TrackIDRange ==
    \A i \in 1..Len(FileIDs(cache.filesystem)) :
        FileIDs(cache.filesystem)[i] \in 0..(IDCount - 1)

(***************************************************************************)
(* The tree under mkdir, create, unlink and rename, with every rename the   *)
(* callback can be handed, a directory moved under itself included.         *)
(***************************************************************************)
\* /d, /d/f, /n, /d/n and /d/e
TreePaths ==
    { << 47, 100 >>, << 47, 100, 47, 102 >>, << 47, 110 >>, << 47, 100, 47, 110 >>,
      << 47, 100, 47, 101 >> }

TreeNext ==
    \/ \E t \in Tasks, path \in TreePaths :
          VFSBudget /\ CanStart(t) /\ ~Resolves(path) /\ MkdirAt(t, path) /\ UNCHANGED tfsVars
    \/ \E t \in Tasks, path \in TreePaths :
          VFSBudget /\ CanStart(t) /\ ~Resolves(path) /\ Create(t, path) /\ UNCHANGED tfsVars
    \/ \E t \in Tasks, path \in TreePaths :
          VFSBudget /\ CanStart(t) /\ Resolves(path) /\ Unlink(t, path) /\ UNCHANGED tfsVars
    \/ \E t \in Tasks, src \in TreePaths, dest \in TreePaths :
          VFSBudget /\ CanStart(t) /\ Resolves(src) /\ Rename(t, src, dest) /\ UNCHANGED tfsVars
    \/ \E t \in Tasks : Return(t) /\ UNCHANGED tfsVars

SpecTree == VFSInit /\ [][TreeNext]_vars

RECURSIVE NodeCount(_)
\* The nodes the root reaches, itself included.
NodeCount(n) ==
    IF IsDir(n)
    THEN 1 + Len(Flatten([i \in 1..Len(n.files) |-> [k \in 1..NodeCount(n.files[i]) |-> 0]]))
    ELSE 1

\* C27: the tree stays a tree rooted at cache.filesystem: a rename that
\* replied 0 leaves the moved node reachable from the root, at dest, and
\* loses no other node, also when a directory is moved to a path inside
\* itself.
C27_RenameKeepsNodes ==
    [][\A t \in Tasks :
          ( /\ Starts(t, "rename")
            /\ calls'[t].reply = << Reply("OK", 0) >> ) =>
              /\ ChildAt(cache'.filesystem, calls'[t].args[2]) # NoNode
              /\ NodeCount(cache'.filesystem) = NodeCount(cache.filesystem)]_vars

\* C30: every callback replies through cb exactly once: it has never replied
\* twice, and when it is over (it returned or it threw) it has replied once.
C30_RepliesOnce ==
    \A t \in Tasks :
        /\ Len(calls[t].reply) <= 1
        /\ (CallbackOver(t) /\ calls[t].op # "none") => Len(calls[t].reply) = 1

====
